---- MODULE Spec2Model ----
(***************************************************************************)
(* Model of the unified vector database client of                          *)
(* src/code/retrieval/retriever.py (class VectorDBClient): endpoint        *)
(* eligibility by site, the parallel fan-out of search, and the            *)
(* aggregation of the per-endpoint result lists.                           *)
(*                                                                         *)
(* Data representation                                                     *)
(*   - a search result is the 4-tuple <<url, json, name, site>>;           *)
(*   - url, name and site are strings, "" is the empty (falsy) string;     *)
(*   - a JSON text (a Python str) is the sequence of its tokens:           *)
(*     '{"a": 1}' is <<"{", "a", "1", "}">>, '{}' is <<"{", "}">> and the  *)
(*     empty string '' is << >>, so that Python's truthiness of a str is   *)
(*     Len(s) > 0;                                                         *)
(*   - a parsed JSON object (a Python dict, insertion ordered) is a        *)
(*     sequence of <<key, value>> pairs with distinct keys.                *)
(***************************************************************************)
EXTENDS Integers, Sequences, FiniteSets, TLC

VARIABLES
    nlweb_sites,            \* CONFIG.nlweb.sites
    enabled_endpoints,      \* self.enabled_endpoints, in dict order
    client_cache,           \* the module-level _client_cache (its keys)
    endpoint_sites_cache,   \* self._endpoint_sites_cache
    retrieval_lock,         \* self._retrieval_lock is held
    populate_log,           \* what filling each endpoint's site index met with
    pc,                     \* position of the search coroutine
    site_arg,               \* search: the site parameter as the caller passed it
    site,                   \* search: the site parameter, once normalized
    num_results,            \* search: the num_results parameter
    loop_i,                 \* search: index of the for loop over enabled_endpoints
    tasks,                  \* search: tasks / endpoint_names, in dispatch order
    skipped_endpoints,      \* search: skipped_endpoints
    task_result,            \* outcome of every finished task
    completion,             \* task indexes in the order the tasks finished
    endpoint_results,       \* search / _aggregate_results: the dict of successes
    final_results,          \* _aggregate_results: the list it returns
    outcome,                \* what the last search or construction returned or raised
    retrieval_endpoints,    \* CONFIG.retrieval_endpoints, in dict order
    config_write_endpoint,  \* CONFIG.write_endpoint
    self_endpoint_name,     \* self.endpoint_name
    write_endpoint,         \* self.write_endpoint
    callers,                \* the coroutines that call the client's operations
    call,                   \* the position and locals of each caller's operation
    cache_lock,             \* the module-level _client_cache_lock is held
    adapters,               \* the values of _client_cache: the instance under each key
    built,                  \* how many adapter instances were constructed per key
    gc,                     \* the position and locals of each get_client call
    handler                 \* the request handler the pre-retrieval checks work on

vars == << nlweb_sites, enabled_endpoints, client_cache, endpoint_sites_cache,
           retrieval_lock, populate_log, pc, site_arg, site, num_results, loop_i,
           tasks, skipped_endpoints, task_result, completion, endpoint_results,
           final_results, outcome, retrieval_endpoints, config_write_endpoint,
           self_endpoint_name, write_endpoint, callers, call, cache_lock, adapters, built,
           gc, handler >>

\* the configuration and what construction made of it, and the request
\* handler, which no operation of the client touches
configVars == << retrieval_endpoints, config_write_endpoint, self_endpoint_name,
                 write_endpoint, handler >>

\* the callers of the facade operations
opsVars == << callers, call >>

\* the adapter cache seen call by call
cacheVars == << cache_lock, adapters, built, gc >>

\* the locals of the search coroutine
searchVars == << site_arg, site, num_results, loop_i, tasks, skipped_endpoints,
                 task_result, completion, endpoint_results, final_results,
                 populate_log >>

\* what a step of get_client leaves alone
cacheRest == << nlweb_sites, enabled_endpoints, endpoint_sites_cache, retrieval_lock, pc,
                outcome, configVars, searchVars, opsVars >>

\* what a step of a caller's facade operation leaves alone
opsRest == << nlweb_sites, enabled_endpoints, pc, outcome, callers, configVars,
              searchVars, cacheVars >>

(***************************************************************************)
(* Generic sequence helpers.                                               *)
(***************************************************************************)
Range(s) == { s[i] : i \in DOMAIN s }

RECURSIVE SeqsUpTo(_, _)
\* all sequences over S of length at most n
SeqsUpTo(S, n) ==
    IF n = 0 THEN { << >> }
    ELSE LET shorter == SeqsUpTo(S, n - 1)
         IN  shorter \cup { Append(s, x) : s \in { t \in shorter : Len(t) = n - 1 }, x \in S }

(***************************************************************************)
(* JSON texts and dicts.                                                   *)
(***************************************************************************)
DictKeys(d) == { d[i][1] : i \in DOMAIN d }

\* d[k] = v of a Python dict: a present key keeps its position
DictSet(d, k, v) ==
    IF k \in DictKeys(d)
    THEN [ i \in DOMAIN d |-> IF d[i][1] = k THEN <<k, v>> ELSE d[i] ]
    ELSE Append(d, <<k, v>>)

RECURSIVE json_loads_members(_, _)
json_loads_members(toks, d) ==
    IF Len(toks) < 2 THEN d
    ELSE json_loads_members(SubSeq(toks, 3, Len(toks)), DictSet(d, toks[1], toks[2]))

\* json.loads of an object text: later duplicates of a key replace its value
json_loads(text) == json_loads_members(SubSeq(text, 2, Len(text) - 1), << >>)

RECURSIVE json_dumps_members(_)
json_dumps_members(d) ==
    IF d = << >> THEN << >>
    ELSE <<d[1][1], d[1][2]>> \o json_dumps_members(Tail(d))

\* json.dumps of a dict: members in insertion order
json_dumps(d) == <<"{">> \o json_dumps_members(d) \o <<"}">>

RECURSIVE merge_json_object(_, _)
\* fields of obj are added to result; a field result already has is kept
merge_json_object(result, obj) ==
    IF obj = << >> THEN result
    ELSE merge_json_object(
            IF obj[1][1] \in DictKeys(result) THEN result
            ELSE Append(result, obj[1]),
            Tail(obj))

RECURSIVE merge_json_array_from(_, _)
merge_json_array_from(json_list, result) ==
    IF json_list = << >> THEN result
    ELSE merge_json_array_from(Tail(json_list),
                               merge_json_object(result, json_loads(json_list[1])))

\* utils.json_utils.merge_json_array: the payloads deep-merged into one
\* structure, later sources adding fields rather than overwriting
merge_json_array(json_list) == merge_json_array_from(json_list, << >>)

(***************************************************************************)
(* VectorDBClient._aggregate_results.                                      *)
(* endpoint_results (a dict, insertion ordered) is a sequence of           *)
(* <<endpoint_name, results>> items; url_to_data is a function from the    *)
(* urls seen to their record.                                              *)
(***************************************************************************)
EmptyMap == [ u \in {} |-> << >> ]

MapPut(m, k, v) == [ x \in (DOMAIN m) \cup {k} |-> IF x = k THEN v ELSE m[x] ]

\* variant of CollectResult: the payload of a url already seen is dropped
CollectResultFirstOnly(url_to_data, endpoint_name, result) ==
    IF Len(result) >= 4
    THEN LET url == result[1]
             json_data == result[2]
         IN  IF url \notin DOMAIN url_to_data
             THEN MapPut(url_to_data, url,
                         [ url |-> url,
                           json_list |-> IF Len(json_data) > 0 THEN <<json_data>> ELSE << >>,
                           name |-> result[3],
                           site |-> result[4],
                           first_endpoint |-> endpoint_name ])
             ELSE url_to_data
    ELSE url_to_data

\* lines 398-416: first pass, one result of one endpoint
CollectResult(url_to_data, endpoint_name, result) ==
    IF Len(result) >= 4
    THEN LET url == result[1]
             json_data == result[2]
         IN  IF url \notin DOMAIN url_to_data
             THEN MapPut(url_to_data, url,
                         [ url |-> url,
                           json_list |-> IF Len(json_data) > 0 THEN <<json_data>> ELSE << >>,
                           name |-> result[3],
                           site |-> result[4],
                           first_endpoint |-> endpoint_name ])
             ELSE IF Len(json_data) > 0
                  THEN [ url_to_data EXCEPT ![url].json_list = Append(@, json_data) ]
                  ELSE url_to_data
    ELSE url_to_data

RECURSIVE CollectResults(_, _, _)
CollectResults(url_to_data, endpoint_name, results) ==
    IF results = << >> THEN url_to_data
    ELSE CollectResults(CollectResult(url_to_data, endpoint_name, results[1]),
                        endpoint_name, Tail(results))

RECURSIVE FirstPass(_, _)
\* lines 392-416: group all results by url, endpoints in dict order
FirstPass(items, url_to_data) ==
    IF items = << >> THEN url_to_data
    ELSE FirstPass(Tail(items), CollectResults(url_to_data, items[1][1], items[1][2]))

\* variant of MergedJsonStr: a single payload is re-serialized too
MergedJsonStrAlwaysDumps(json_list) == json_dumps(merge_json_array(json_list))

\* variant of MergedJsonStr: a single payload is parsed and serialized again
MergedJsonStrReparsed(json_list) ==
    IF Len(json_list) > 1 THEN json_dumps(merge_json_array(json_list))
    ELSE IF Len(json_list) > 0 THEN json_dumps(json_loads(json_list[1]))
    ELSE <<"{", "}">>

\* lines 443-452: the JSON string of the merged record
MergedJsonStr(json_list) ==
    IF Len(json_list) > 1 THEN json_dumps(merge_json_array(json_list))
    ELSE IF Len(json_list) > 0 THEN json_list[1]
    ELSE <<"{", "}">>

\* variant of EmitResult: seen_urls is not consulted
EmitResultNoSeen(url_to_data, acc, result) ==
    IF Len(result) >= 1 /\ result[1] # ""
    THEN IF result[1] \in DOMAIN url_to_data
         THEN LET data == url_to_data[result[1]]
              IN  [ final |-> Append(acc.final,
                                     << data.url, MergedJsonStr(data.json_list),
                                        data.name, data.site >>),
                    seen |-> acc.seen \cup { result[1] } ]
         ELSE [ acc EXCEPT !.seen = @ \cup { result[1] } ]
    ELSE acc

\* variant of EmitResult: name and site of the result met in the interleave
EmitResultOwnNameSite(url_to_data, acc, result) ==
    IF Len(result) >= 1 /\ result[1] # "" /\ result[1] \notin acc.seen
    THEN IF result[1] \in DOMAIN url_to_data
         THEN LET data == url_to_data[result[1]]
              IN  [ final |-> Append(acc.final,
                                     << data.url, MergedJsonStr(data.json_list),
                                        result[3], result[4] >>),
                    seen |-> acc.seen \cup { result[1] } ]
         ELSE [ acc EXCEPT !.seen = @ \cup { result[1] } ]
    ELSE acc

\* lines 436-461: one item taken from an iterator; acc = [final, seen]
EmitResult(url_to_data, acc, result) ==
    IF Len(result) >= 1 /\ result[1] # "" /\ result[1] \notin acc.seen
    THEN IF result[1] \in DOMAIN url_to_data
         THEN LET data == url_to_data[result[1]]
              IN  [ final |-> Append(acc.final,
                                     << data.url, MergedJsonStr(data.json_list),
                                        data.name, data.site >>),
                    seen |-> acc.seen \cup { result[1] } ]
         ELSE [ acc EXCEPT !.seen = @ \cup { result[1] } ]
    ELSE acc

RECURSIVE InterleaveRound(_, _, _, _)
\* lines 433-463: one pass of the for loop over the live iterators.
\* iterators is a sequence of [name, results, pos]; st = [acc,
\* endpoints_to_remove, advanced], k the index of the iterator being advanced.
InterleaveRound(url_to_data, iterators, k, st) ==
    IF k > Len(iterators) THEN st
    ELSE LET it == iterators[k]
         IN  IF it.pos > Len(it.results)
             THEN \* StopIteration
                  InterleaveRound(url_to_data, iterators, k + 1,
                      [ st EXCEPT !.endpoints_to_remove = @ \cup { it.name } ])
             ELSE InterleaveRound(url_to_data, iterators, k + 1,
                      [ st EXCEPT !.acc = EmitResult(url_to_data, @, it.results[it.pos]),
                                  !.advanced = @ \cup { it.name } ])

RECURSIVE EmitAll(_, _, _)
EmitAll(url_to_data, acc, results) ==
    IF results = << >> THEN acc
    ELSE EmitAll(url_to_data, EmitResult(url_to_data, acc, results[1]), Tail(results))

RECURSIVE InterleaveSequential(_, _, _)
\* variant of Interleave: every iterator is drained before the next one
InterleaveSequential(url_to_data, iterators, acc) ==
    IF iterators = << >> THEN acc.final
    ELSE InterleaveSequential(url_to_data, Tail(iterators),
                              EmitAll(url_to_data, acc, iterators[1].results))

RECURSIVE Interleave(_, _, _)
\* lines 430-467: while iterators: ...
Interleave(url_to_data, iterators, acc) ==
    IF iterators = << >> THEN acc.final
    ELSE LET st == InterleaveRound(url_to_data, iterators, 1,
                       [ acc |-> acc, endpoints_to_remove |-> {}, advanced |-> {} ])
             stepped == [ i \in DOMAIN iterators |->
                            IF iterators[i].name \in st.advanced
                            THEN [ iterators[i] EXCEPT !.pos = @ + 1 ]
                            ELSE iterators[i] ]
             Live(it) == it.name \notin st.endpoints_to_remove
         IN  Interleave(url_to_data, SelectSeq(stepped, Live), st.acc)

\* lines 424-427: an iterator for every endpoint with a non-empty result list
MakeIterators(items) ==
    LET NonEmpty(item) == item[2] # << >>
        live == SelectSeq(items, NonEmpty)
    IN  [ i \in DOMAIN live |-> [ name |-> live[i][1], results |-> live[i][2], pos |-> 1 ] ]

aggregate_results(items) ==
    Interleave(FirstPass(items, EmptyMap),
               MakeIterators(items),
               [ final |-> << >>, seen |-> {} ])

(***************************************************************************)
(* Site filters.  A Python str is the sequence of its tokens (identifier   *)
(* pieces and the separators ",", " ", "[", "]"); the site parameter is a  *)
(* str or a list of str.                                                   *)
(***************************************************************************)
Str(toks) == [ isList |-> FALSE, s |-> toks, l |-> << >> ]
Lst(strs) == [ isList |-> TRUE, s |-> << >>, l |-> strs ]
ALL == Str(<<"all">>)

\* truthiness of a str or list value
Truthy(v) == IF v.isList THEN v.l # << >> ELSE v.s # << >>

RECURSIVE str_remove(_, _)
\* s.replace(tok, '')
str_remove(s, tok) ==
    IF s = << >> THEN << >>
    ELSE IF s[1] = tok THEN str_remove(Tail(s), tok)
    ELSE <<s[1]>> \o str_remove(Tail(s), tok)

\* s.replace(old, new)
str_replace(s, old, new) == [ i \in DOMAIN s |-> IF s[i] = old THEN new ELSE s[i] ]

RECURSIVE str_lstrip(_)
str_lstrip(s) ==
    IF s # << >> /\ s[1] = " " THEN str_lstrip(Tail(s)) ELSE s

RECURSIVE str_rstrip(_)
str_rstrip(s) ==
    IF s # << >> /\ s[Len(s)] = " " THEN str_rstrip(SubSeq(s, 1, Len(s) - 1)) ELSE s

\* s.strip()
str_strip(s) == str_rstrip(str_lstrip(s))

RECURSIVE str_split(_, _, _)
\* s.split(sep): cur is the piece being read
str_split(s, sep, cur) ==
    IF s = << >> THEN << cur >>
    ELSE IF s[1] = sep THEN << cur >> \o str_split(Tail(s), sep, << >>)
    ELSE str_split(Tail(s), sep, Append(cur, s[1]))

\* search, lines 561-565: "all" becomes the configured sites
ConfiguredSite(arg, sites) ==
    IF arg = ALL /\ Truthy(sites) /\ sites # ALL THEN sites ELSE arg

\* variant of ProcessSite: a str without a comma is left as it is
ProcessSiteKeepsSpaces(st) ==
    IF ~st.isList /\ "," \in Range(st.s)
    THEN LET stripped == str_remove(str_remove(st.s, "["), "]")
             parts == str_split(stripped, ",", << >>)
         IN  Lst([ i \in DOMAIN parts |-> str_strip(parts[i]) ])
    ELSE st

\* search, lines 575-579
ProcessSite(st) ==
    IF ~st.isList /\ "," \in Range(st.s)
    THEN LET stripped == str_remove(str_remove(st.s, "["), "]")
             parts == str_split(stripped, ",", << >>)
         IN  Lst([ i \in DOMAIN parts |-> str_strip(parts[i]) ])
    ELSE IF ~st.isList THEN Str(str_replace(st.s, " ", "_"))
    ELSE st

NormalizeSite(arg, sites) == ProcessSite(ConfiguredSite(arg, sites))

(***************************************************************************)
(* The site index.  A cache entry is absent, None or a list of sites.      *)
(***************************************************************************)
Absent == [ state |-> "absent", sites |-> << >> ]
NoneSites == [ state |-> "none", sites |-> << >> ]
SiteList(l) == [ state |-> "list", sites |-> l ]

\* variant of HasSite: no endpoint is ever skipped
HasSiteAlways(endpoint_sites, st) == TRUE

\* variant of HasSite: an empty site list is taken like an unknown one
HasSiteEmptyUnknown(endpoint_sites, st) ==
    IF endpoint_sites.state = "none" \/ endpoint_sites.sites = << >> THEN TRUE
    ELSE LET sites_to_check == IF st.isList THEN st.l ELSE << st.s >>
         IN  \E i \in DOMAIN sites_to_check :
                sites_to_check[i] \in Range(endpoint_sites.sites)

\* _endpoint_has_site, lines 251-269, on the value _get_endpoint_sites returned
HasSite(endpoint_sites, st) ==
    IF endpoint_sites.state = "none" THEN TRUE
    ELSE IF endpoint_sites.sites = << >> THEN FALSE
    ELSE LET sites_to_check == IF st.isList THEN st.l ELSE << st.s >>
         IN  \E i \in DOMAIN sites_to_check :
                sites_to_check[i] \in Range(endpoint_sites.sites)

\* what a population of the site index met with: the adapter could not be
\* obtained, or get_sites raised, returned None or returned a list
PopulateCase(client_ok, got) == IF client_ok THEN got.state ELSE "noclient"

\* variant of PopulateSites: the exceptions are not caught
PopulateSitesUncaught(client_ok, got) ==
    IF client_ok /\ got.state = "list"
    THEN [ raised |-> FALSE, entry |-> SiteList(got.sites) ]
    ELSE [ raised |-> TRUE, entry |-> Absent ]

\* _get_endpoint_sites, lines 220-231, for an endpoint not yet cached:
\* whether an exception leaves the method, and the entry it caches.  A None
\* is stored and then len(None) raises, so that, as for every exception of
\* get_client and get_sites, the handler stores None and returns it.
PopulateSites(client_ok, got) ==
    IF client_ok /\ got.state = "list"
    THEN [ raised |-> FALSE, entry |-> SiteList(got.sites) ]
    ELSE [ raised |-> FALSE, entry |-> NoneSites ]

(***************************************************************************)
(* The adapter cache.                                                      *)
(***************************************************************************)
DbType(e) ==
    CASE e = "E1" -> "azure_ai_search"
      [] e = "E2" -> "qdrant"
      [] OTHER    -> "milvus"

CacheKey(e) == << DbType(e), e >>

\* variant of GetClient: a constructor that fails goes unnoticed
GetClientFailureUnnoticed(cache, enabled, e, ctor_ok) ==
    IF e \notin Range(enabled) THEN [ ok |-> FALSE, cache |-> cache ]
    ELSE IF CacheKey(e) \in cache THEN [ ok |-> TRUE, cache |-> cache ]
    ELSE IF ctor_ok THEN [ ok |-> TRUE, cache |-> cache \cup { CacheKey(e) } ]
    ELSE [ ok |-> TRUE, cache |-> cache ]

\* get_client, lines 314-348: [ok, cache]; ctor_ok says whether the
\* adapter's constructor succeeds when it is run
GetClient(cache, enabled, e, ctor_ok) ==
    IF e \notin Range(enabled) THEN [ ok |-> FALSE, cache |-> cache ]
    ELSE IF CacheKey(e) \in cache THEN [ ok |-> TRUE, cache |-> cache ]
    ELSE IF ctor_ok THEN [ ok |-> TRUE, cache |-> cache \cup { CacheKey(e) } ]
    ELSE [ ok |-> FALSE, cache |-> cache ]

(***************************************************************************)
(* search, non-pinned (endpoint_name is None).                             *)
(***************************************************************************)
NoOutcome == [ kind |-> "none", type |-> "", error |-> "", value |-> << >> ]
Raised(type, err) == [ kind |-> "raised", type |-> type, error |-> err, value |-> << >> ]
Returned(v) == [ kind |-> "returned", type |-> "", error |-> "", value |-> v ]

NoValidEndpoints == "No valid endpoints available for search"
AllSearchesFailed == "All endpoint searches failed"

Min(a, b) == IF a < b THEN a ELSE b
Max(a, b) == IF a > b THEN a ELSE b

\* s[:n]
SliceTo(s, n) ==
    IF n >= 0 THEN SubSeq(s, 1, Min(n, Len(s)))
    ELSE SubSeq(s, 1, Max(Len(s) + n, 0))

\* lines 560-589: the call up to the for loop
SearchBegin(arg, n) ==
    /\ pc \in { "idle", "done" }
    /\ ~retrieval_lock
    /\ retrieval_lock' = TRUE
    /\ site_arg' = arg
    /\ site' = NormalizeSite(arg, nlweb_sites)
    /\ num_results' = n
    /\ loop_i' = 1
    /\ tasks' = << >>
    /\ skipped_endpoints' = << >>
    /\ task_result' = << >>
    /\ completion' = << >>
    /\ endpoint_results' = << >>
    /\ final_results' = << >>
    /\ outcome' = NoOutcome
    /\ pc' = "loop"
    /\ UNCHANGED << configVars, opsVars, cacheVars >>
    /\ UNCHANGED << nlweb_sites, enabled_endpoints, client_cache, endpoint_sites_cache,
                    populate_log >>

\* lines 591-607: one iteration of the for loop.  got is what the
\* adapter's get_sites does if it is asked, ctor1 and ctor2 whether the
\* adapter's constructor succeeds if it is run by _get_endpoint_sites and
\* by search.  An exception of _endpoint_has_site or get_client is caught
\* at line 606 and the endpoint gets no task.
SearchLoopStep(got, ctor1, ctor2) ==
    /\ pc = "loop"
    /\ loop_i <= Len(enabled_endpoints)
    /\ LET e == enabled_endpoints[loop_i]
           fetch == site # ALL /\ endpoint_sites_cache[e].state = "absent"
           c1 == IF fetch THEN GetClient(client_cache, enabled_endpoints, e, ctor1)
                 ELSE [ ok |-> TRUE, cache |-> client_cache ]
           populated == IF fetch THEN PopulateSites(c1.ok, got)
                        ELSE [ raised |-> FALSE, entry |-> endpoint_sites_cache[e] ]
           has == ~populated.raised /\ (site = ALL \/ HasSite(populated.entry, site))
           c2 == IF has THEN GetClient(c1.cache, enabled_endpoints, e, ctor2)
                 ELSE [ ok |-> FALSE, cache |-> c1.cache ]
       IN  /\ endpoint_sites_cache' = [ endpoint_sites_cache EXCEPT ![e] = populated.entry ]
           /\ populate_log' =
                IF fetch THEN [ populate_log EXCEPT ![e] = PopulateCase(c1.ok, got) ]
                ELSE populate_log
           /\ client_cache' = c2.cache
           /\ skipped_endpoints' =
                IF ~populated.raised /\ ~has THEN Append(skipped_endpoints, e)
                ELSE skipped_endpoints
           /\ IF has /\ c2.ok
              THEN /\ tasks' = Append(tasks,
                          [ endpoint |-> e,
                            method |-> IF site = ALL THEN "search_all_sites" ELSE "search",
                            site |-> site,
                            num_results |-> num_results ])
                   /\ task_result' = Append(task_result,
                          [ done |-> FALSE, ok |-> FALSE, results |-> << >> ])
              ELSE UNCHANGED << tasks, task_result >>
    /\ loop_i' = loop_i + 1
    /\ UNCHANGED << configVars, opsVars, cacheVars >>
    /\ UNCHANGED << nlweb_sites, enabled_endpoints, retrieval_lock, pc, site_arg, site,
                    num_results, completion, endpoint_results, final_results, outcome >>

\* variant of NoTasks: the check is left out
NoTasksNever(tsk) == FALSE

\* line 612: not tasks
NoTasks(tsk) == tsk = << >>

\* lines 609-616: after the loop
SearchLoopEnd ==
    /\ pc = "loop"
    /\ loop_i > Len(enabled_endpoints)
    /\ IF NoTasks(tasks)
       THEN /\ outcome' = Raised("ValueError", NoValidEndpoints)
            /\ retrieval_lock' = FALSE
            /\ pc' = "done"
       ELSE /\ pc' = "gather"
            /\ UNCHANGED << outcome, retrieval_lock >>
    /\ UNCHANGED << configVars, opsVars, cacheVars >>
    /\ UNCHANGED << nlweb_sites, enabled_endpoints, client_cache, endpoint_sites_cache,
                    populate_log, site_arg, site, num_results, loop_i, tasks,
                    skipped_endpoints, task_result, completion, endpoint_results,
                    final_results >>

\* a query task created at line 601 or 603 finishes: the adapter call
\* returned a list or raised
TaskComplete(i, ok, results) ==
    /\ pc \in { "loop", "gather" }
    /\ i \in DOMAIN tasks
    /\ ~task_result[i].done
    /\ task_result' = [ task_result EXCEPT
            ![i] = [ done |-> TRUE, ok |-> ok, results |-> IF ok THEN results ELSE << >> ] ]
    /\ completion' = Append(completion, i)
    /\ UNCHANGED << configVars, opsVars, cacheVars >>
    /\ UNCHANGED << nlweb_sites, enabled_endpoints, client_cache, endpoint_sites_cache,
                    retrieval_lock, populate_log, pc, site_arg, site, num_results,
                    loop_i, tasks, skipped_endpoints, endpoint_results, final_results,
                    outcome >>

\* variant of Gather: the results in the order the tasks finished
GatherByCompletion(tsk, res, order) == [ i \in DOMAIN tsk |-> res[order[i]] ]

\* asyncio.gather(*tasks, return_exceptions=True), line 616: the results
\* in the order of the awaitables
Gather(tsk, res, order) == [ i \in DOMAIN tsk |-> res[i] ]

RECURSIVE ProcessResults(_, _)
\* lines 619-627: the dict of the results that are no exception
ProcessResults(endpoint_names, results) ==
    IF endpoint_names = << >> THEN << >>
    ELSE (IF results[1].ok THEN << << endpoint_names[1], results[1].results >> >>
          ELSE << >>)
         \o ProcessResults(Tail(endpoint_names), Tail(results))

\* variant of Limit: the merged list is not cut
LimitNone(merged, n) == merged

\* line 637
Limit(merged, n) == SliceTo(merged, n)

\* variant of SearchOutcome: the exception of a task is raised
SearchOutcomePropagating(results, merged, n) ==
    IF \E i \in DOMAIN results : ~results[i].ok
    THEN Raised("BackendError", "search failed")
    ELSE Returned(Limit(merged, n))

\* lines 620-637: what search returns or raises, given the gathered results
\* and the list _aggregate_results made of the successful ones
SearchOutcome(results, merged, n) ==
    LET successful_endpoints == Cardinality({ i \in DOMAIN results : results[i].ok })
    IN  IF successful_endpoints = 0
        THEN Raised("ValueError", AllSearchesFailed)
        ELSE Returned(Limit(merged, n))

\* variant of GatherReturns: gather returns with the first task that is done
GatherReturnsOnFirst(res) == \E i \in DOMAIN res : res[i].done

\* line 616: the await of asyncio.gather ends when every awaitable is done
GatherReturns(res) == \A i \in DOMAIN res : res[i].done

\* lines 616-654: gather returns once every task is done
SearchGather ==
    /\ pc = "gather"
    /\ GatherReturns(task_result)
    /\ LET results == Gather(tasks, task_result, completion)
           endpoint_names == [ i \in DOMAIN tasks |-> tasks[i].endpoint ]
           successes == ProcessResults(endpoint_names, results)
           merged == aggregate_results(successes)
           result == SearchOutcome(results, merged, num_results)
       IN  /\ outcome' = result
           /\ endpoint_results' = successes
           /\ final_results' = IF result.kind = "returned" THEN merged ELSE << >>
    /\ retrieval_lock' = FALSE
    /\ pc' = "done"
    /\ UNCHANGED << configVars, opsVars, cacheVars >>
    /\ UNCHANGED << nlweb_sites, enabled_endpoints, client_cache, endpoint_sites_cache,
                    populate_log, site_arg, site, num_results, loop_i, tasks,
                    skipped_endpoints, task_result, completion >>

(***************************************************************************)
(* Configuration and construction.                                         *)
(* CONFIG.retrieval_endpoints (a dict, insertion ordered) is a sequence of *)
(* endpoint configurations; a credential field is a string, "" standing    *)
(* for its falsy values (None and the empty string), and so does "" for an *)
(* endpoint name that is None or empty.                                    *)
(***************************************************************************)
EndpointConfig(name, db_type, enabled, api_key, api_endpoint, database_path) ==
    [ name |-> name, db_type |-> db_type, enabled |-> enabled, api_key |-> api_key,
      api_endpoint |-> api_endpoint, database_path |-> database_path ]

\* list(CONFIG.retrieval_endpoints.keys()), as a set
RegistryNames(reg) == { reg[i].name : i \in DOMAIN reg }

\* CONFIG.retrieval_endpoints[name]
ConfigOf(reg, name) == reg[CHOOSE i \in DOMAIN reg : reg[i].name = name]

\* variant of has_valid_credentials: a remote qdrant needs its API key too
has_valid_credentials_KeyAlways(config) ==
    IF config.db_type \in { "azure_ai_search", "snowflake_cortex_search" }
    THEN config.api_key # "" /\ config.api_endpoint # ""
    ELSE IF config.db_type = "opensearch"
    THEN config.api_endpoint # "" /\ config.api_key # ""
    ELSE IF config.db_type = "qdrant"
    THEN IF config.database_path # "" THEN TRUE
         ELSE config.api_endpoint # "" /\ config.api_key # ""
    ELSE IF config.db_type = "milvus"
    THEN config.database_path # ""
    ELSE FALSE

\* _has_valid_credentials, lines 282-301
has_valid_credentials(config) ==
    IF config.db_type \in { "azure_ai_search", "snowflake_cortex_search" }
    THEN config.api_key # "" /\ config.api_endpoint # ""
    ELSE IF config.db_type = "opensearch"
    THEN config.api_endpoint # "" /\ config.api_key # ""
    ELSE IF config.db_type = "qdrant"
    THEN IF config.database_path # "" THEN TRUE
         ELSE config.api_endpoint # ""
    ELSE IF config.db_type = "milvus"
    THEN config.database_path # ""
    ELSE FALSE

\* variant of KeepEndpoint: the enabled flag is not looked at
KeepEndpointIgnoringEnabled(config) == has_valid_credentials(config)

\* lines 166-173: whether the loop of __init__ keeps an endpoint
KeepEndpoint(config) == config.enabled /\ has_valid_credentials(config)

RECURSIVE EnabledEndpoints(_)
\* lines 164-173: the endpoints the loop keeps, in dict order
EnabledEndpoints(reg) ==
    IF reg = << >> THEN << >>
    ELSE (IF KeepEndpoint(reg[1]) THEN << reg[1].name >> ELSE << >>)
         \o EnabledEndpoints(Tail(reg))

InvalidEndpoint == "Invalid endpoint"
NoEnabledEndpoints == "No enabled retrieval endpoints with valid credentials found"
WriteEndpointNotFound == "Write endpoint not found in configuration"
WriteEndpointNoCredentials == "Write endpoint is missing required credentials"

InitFailed(msg) ==
    [ ok |-> FALSE, error |-> Raised("ValueError", msg), enabled_endpoints |-> << >>,
      endpoint_name |-> "", write_endpoint |-> "" ]

\* variant of VectorDBClientInit: the credentials of the write endpoint are
\* not looked at
VectorDBClientInitAnyWriteCredentials(reg, name, cfg_write) ==
    IF name # "" /\ name \notin RegistryNames(reg)
    THEN InitFailed(InvalidEndpoint)
    ELSE IF name = "" /\ EnabledEndpoints(reg) = << >>
    THEN InitFailed(NoEnabledEndpoints)
    ELSE IF cfg_write # "" /\ cfg_write \notin RegistryNames(reg)
    THEN InitFailed(WriteEndpointNotFound)
    ELSE [ ok |-> TRUE, error |-> NoOutcome,
           enabled_endpoints |-> IF name # "" THEN << name >> ELSE EnabledEndpoints(reg),
           endpoint_name |-> name, write_endpoint |-> cfg_write ]

\* VectorDBClient.__init__, lines 146-204: the fields of the new client, or
\* the error the constructor raises; name is the endpoint_name argument and
\* cfg_write is CONFIG.write_endpoint
VectorDBClientInit(reg, name, cfg_write) ==
    IF name # "" /\ name \notin RegistryNames(reg)
    THEN InitFailed(InvalidEndpoint)
    ELSE IF name = "" /\ EnabledEndpoints(reg) = << >>
    THEN InitFailed(NoEnabledEndpoints)
    ELSE IF cfg_write # "" /\ cfg_write \notin RegistryNames(reg)
    THEN InitFailed(WriteEndpointNotFound)
    ELSE IF cfg_write # "" /\ ~has_valid_credentials(ConfigOf(reg, cfg_write))
    THEN InitFailed(WriteEndpointNoCredentials)
    ELSE [ ok |-> TRUE, error |-> NoOutcome,
           enabled_endpoints |-> IF name # "" THEN << name >> ELSE EnabledEndpoints(reg),
           endpoint_name |-> name, write_endpoint |-> cfg_write ]

\* VectorDBClient(endpoint_name = name): the caller gets the client or the error
Construct(name) ==
    /\ pc = "new"
    /\ LET made == VectorDBClientInit(retrieval_endpoints, name, config_write_endpoint)
       IN  /\ pc' = IF made.ok THEN "constructed" ELSE "failed"
           /\ outcome' = IF made.ok THEN Returned(<< >>) ELSE made.error
           /\ enabled_endpoints' = made.enabled_endpoints
           /\ write_endpoint' = made.write_endpoint
    /\ self_endpoint_name' = name
    /\ retrieval_lock' = FALSE
    /\ UNCHANGED << retrieval_endpoints, config_write_endpoint, nlweb_sites, client_cache,
                    endpoint_sites_cache, handler >>
    /\ UNCHANGED << searchVars, opsVars, cacheVars >>

(***************************************************************************)
(* RelevanceDetection, the pre-retrieval check of whether the query has    *)
(* to do with the site.  handler holds the fields of the request handler   *)
(* the check reads and writes: site, query_is_irrelevant, query_done,      *)
(* abort_fast_track_event (set or not), the state of the precheck step     *)
(* "Relevance" in handler.state, the messages sent to the client (sent)    *)
(* and the prompts run (prompts); detection is the position of the         *)
(* RelevanceDetection object: not made, constructed, or do has returned.   *)
(***************************************************************************)
\* no request is being handled
NoHandler ==
    [ site |-> ALL, query_is_irrelevant |-> FALSE, query_done |-> FALSE,
      abort_fast_track_event |-> FALSE, precheck_step |-> "none", sent |-> << >>,
      prompts |-> << >>, detection |-> "none" ]

\* a Python value that is a bool or a str
PyBool(b) == [ isBool |-> TRUE, b |-> b, s |-> << >> ]
PyStr(toks) == [ isBool |-> FALSE, b |-> FALSE, s |-> toks ]

\* bool(v): a str is true unless it is empty
py_truthy(v) == IF v.isBool THEN v.b ELSE v.s # << >>

\* a or b: a if a is true, b otherwise
py_or(a, b) == IF py_truthy(a) THEN a ELSE b

\* variant of ShortCircuits: the condition without its last operand
ShortCircuitsForNamedSites(st) ==
    py_truthy(py_or(PyBool(st = ALL), PyBool(st = Str(<< "nlws" >>))))

\* line 24: self.handler.site == 'all' or self.handler.site == 'nlws' or 'true'
ShortCircuits(st) ==
    py_truthy(py_or(py_or(PyBool(st = ALL), PyBool(st = Str(<< "nlws" >>))),
                    PyStr(<< "true" >>)))

\* handler.state.start_precheck_step(name)
start_precheck_step(h) == [ h EXCEPT !.precheck_step = "started" ]

\* handler.state.precheck_step_done(name)
precheck_step_done(h) == [ h EXCEPT !.precheck_step = "done" ]

\* what run_prompt gives: nothing, or the answer of the model
NoResponse == [ given |-> FALSE, site_is_irrelevant_to_query |-> "", explanation |-> "" ]
Response(irrelevant, why) ==
    [ given |-> TRUE, site_is_irrelevant_to_query |-> irrelevant, explanation |-> why ]

\* what the steps of RelevanceDetection leave alone
handlerRest == << nlweb_sites, enabled_endpoints, client_cache, endpoint_sites_cache,
                 retrieval_lock, pc, outcome, retrieval_endpoints, config_write_endpoint,
                 self_endpoint_name, write_endpoint, searchVars, opsVars, cacheVars >>

\* RelevanceDetection(handler), lines 19-21
RelevanceDetectionInit ==
    /\ handler.detection = "none"
    /\ handler' = [ start_precheck_step(handler) EXCEPT !.detection = "constructed" ]
    /\ UNCHANGED handlerRest

\* RelevanceDetection.do, lines 23-41; response is what run_prompt gives
\* if it is called
do(response) ==
    /\ handler.detection = "constructed"
    /\ handler' =
          IF ShortCircuits(handler.site)
          THEN [ precheck_step_done(handler) EXCEPT !.detection = "done" ]
          ELSE LET prompted == [ handler EXCEPT
                                   !.prompts = Append(@, "DetectIrrelevantQueryPrompt") ]
               IN  IF ~response.given
                   THEN [ precheck_step_done(prompted) EXCEPT !.detection = "done" ]
                   ELSE IF response.site_is_irrelevant_to_query = "True"
                   THEN [ precheck_step_done(prompted) EXCEPT
                            !.query_is_irrelevant = TRUE,
                            !.query_done = TRUE,
                            !.abort_fast_track_event = TRUE,
                            !.sent = Append(@, [ message_type |-> "site_is_irrelevant_to_query",
                                                 message |-> response.explanation ]),
                            !.detection = "done" ]
                   ELSE [ precheck_step_done(prompted) EXCEPT
                            !.query_is_irrelevant = FALSE,
                            !.detection = "done" ]
    /\ UNCHANGED handlerRest

(***************************************************************************)
(* The environment: what callers pass and what the adapters answer.        *)
(***************************************************************************)
MaxLimit == 2
MaxLen == 3

EndpointOrder == << "E1", "E2", "E3" >>
Endpoints == Range(EndpointOrder)

SiteX == << "siteX" >>
SiteY == << "siteY" >>
SiteZ == << "siteZ" >>

\* site arguments: "all", "siteX", "siteY", "siteX, siteZ", ["siteZ", "siteY"]
\* and "site X"
SiteArgs ==
    { ALL, Str(SiteX), Str(SiteY),
      Str(<< "siteX", ",", " ", "siteZ" >>),
      Lst(<< SiteZ, SiteY >>),
      Str(<< "site", " ", "X" >>) }

\* CONFIG.nlweb.sites: no restriction, or the sites the process is restricted to
ConfiguredSites == { ALL, Lst(<< SiteY >>), Lst(<< SiteX, SiteZ >>) }

\* what the adapter's get_sites does: it raises, returns None (the default
\* implementation) or returns a list of sites
GetSitesOutcomes(e) ==
    CASE e = "E1" -> { [ state |-> "raise", sites |-> << >> ],
                       [ state |-> "list", sites |-> << >> ],
                       [ state |-> "list", sites |-> << SiteX >> ] }
      [] e = "E2" -> { [ state |-> "none", sites |-> << >> ],
                       [ state |-> "list", sites |-> << SiteX >> ],
                       [ state |-> "list", sites |-> << SiteY, SiteZ >> ] }
      [] OTHER    -> { [ state |-> "none", sites |-> << >> ],
                       [ state |-> "list", sites |-> << SiteX >> ] }

\* whether an adapter's constructor can fail
CtorOutcomes(e) == IF e = "E3" THEN BOOLEAN ELSE { TRUE }

EmptyStr == << >>
JsonA1 == << "{", "a", "1", "}" >>
JsonB2 == << "{", "b", "2", "}" >>
JsonA2 == << "{", "a", "2", "c", "3", "}" >>
JsonB3 == << "{", "b", "3", "b", "4", "}" >>

NameOf(e) == CASE e = "E1" -> "n1" [] e = "E2" -> "n2" [] OTHER -> "n3"
SiteOf(e) == CASE e = "E1" -> "s1" [] e = "E2" -> "s2" [] OTHER -> "s3"

Doc(e, url, json) == << url, json, NameOf(e), SiteOf(e) >>

\* the lists an adapter's search returns in the model of search
Corpus(e) ==
    CASE e = "E1" -> << Doc(e, "u1", JsonA1), Doc(e, "u2", JsonA1) >>
      [] e = "E2" -> << Doc(e, "u2", JsonB2), Doc(e, "u1", JsonB2) >>
      [] OTHER    -> << Doc(e, "u3", JsonB3) >>

SearchResults(e) == { << >>, Corpus(e) }

\* the results an adapter may return in the model of _aggregate_results
Docs(e) ==
    CASE e = "E1" -> { Doc(e, "", JsonA1), Doc(e, "u1", EmptyStr),
                       Doc(e, "u1", JsonA1), Doc(e, "u2", JsonA1) }
      [] e = "E2" -> { Doc(e, "u1", JsonA2), Doc(e, "u2", JsonB2) }
      [] OTHER    -> { Doc(e, "u1", JsonB3) }

\* the registry: E1 and E2 are enabled, E3 is enabled or not, and each has
\* the credentials its kind needs
RegistryWith(e3_enabled) ==
    << EndpointConfig("E1", DbType("E1"), TRUE, "key", "https://e1", ""),
       EndpointConfig("E2", DbType("E2"), TRUE, "", "https://e2", ""),
       EndpointConfig("E3", DbType("E3"), e3_enabled, "", "", "/data/e3") >>

CacheKeys == { CacheKey(e) : e \in Endpoints }

\* the configuration is reg and cfg_write
ConfiguredAs(reg, cfg_write) ==
    /\ retrieval_endpoints = reg
    /\ config_write_endpoint = cfg_write

\* nobody calls the facade operations
NoCallers ==
    /\ callers = {}
    /\ call = << >>

\* no adapter was built yet and no get_client call is followed step by step
CacheIdle ==
    /\ cache_lock = FALSE
    /\ adapters = [ k \in CacheKeys |-> 0 ]
    /\ built = [ k \in CacheKeys |-> 0 ]
    /\ gc = << >>

\* no search is running
SearchIdle ==
    /\ populate_log = [ e \in Endpoints |-> "never" ]
    /\ site_arg = ALL
    /\ site = ALL
    /\ num_results = 0
    /\ loop_i = 1
    /\ tasks = << >>
    /\ skipped_endpoints = << >>
    /\ task_result = << >>
    /\ completion = << >>
    /\ endpoint_results = << >>
    /\ final_results = << >>

(***************************************************************************)
(* Specification of search on one client built over all enabled endpoints. *)
(***************************************************************************)
\* the order of the endpoints in CONFIG.retrieval_endpoints: E3, the one
\* whose adapter may fail to be built, comes last or first
RegistryOrders == { EndpointOrder, << "E3", "E1", "E2" >> }

Init ==
    /\ handler = NoHandler
    /\ nlweb_sites \in ConfiguredSites
    /\ client_cache = {}
    /\ endpoint_sites_cache = [ e \in Endpoints |-> Absent ]
    /\ retrieval_lock = FALSE
    /\ populate_log = [ e \in Endpoints |-> "never" ]
    /\ pc = "idle"
    /\ site_arg = ALL
    /\ site = ALL
    /\ num_results = 0
    /\ loop_i = 1
    /\ tasks = << >>
    /\ skipped_endpoints = << >>
    /\ task_result = << >>
    /\ completion = << >>
    /\ endpoint_results = << >>
    /\ final_results = << >>
    /\ outcome = NoOutcome
    /\ \E order \in RegistryOrders :
          ConfiguredAs([ i \in DOMAIN order |-> ConfigOf(RegistryWith(TRUE), order[i]) ], "")
    /\ enabled_endpoints = EnabledEndpoints(retrieval_endpoints)
    /\ self_endpoint_name = ""
    /\ write_endpoint = ""
    /\ NoCallers
    /\ CacheIdle

Next ==
    \/ \E arg \in SiteArgs, n \in 0 .. MaxLimit : SearchBegin(arg, n)
    \/ \E got \in GetSitesOutcomes(enabled_endpoints[Min(loop_i, Len(enabled_endpoints))]),
          ctor1, ctor2 \in CtorOutcomes(enabled_endpoints[Min(loop_i, Len(enabled_endpoints))]) :
            SearchLoopStep(got, ctor1, ctor2)
    \/ SearchLoopEnd
    \/ \E i \in DOMAIN tasks :
          \/ TaskComplete(i, FALSE, << >>)
          \/ \E results \in SearchResults(tasks[i].endpoint) : TaskComplete(i, TRUE, results)
    \/ SearchGather

Spec == Init /\ [][Next]_vars

(***************************************************************************)
(* Specification of _aggregate_results as a function of its argument.      *)
(***************************************************************************)
InitAgg ==
    /\ handler = NoHandler
    /\ nlweb_sites = ALL
    /\ enabled_endpoints = EndpointOrder
    /\ client_cache = {}
    /\ endpoint_sites_cache = [ e \in Endpoints |-> Absent ]
    /\ retrieval_lock = FALSE
    /\ populate_log = [ e \in Endpoints |-> "never" ]
    /\ pc = "aggregate"
    /\ site_arg = ALL
    /\ site = ALL
    /\ num_results = 0
    /\ loop_i = 1
    /\ tasks = << >>
    /\ skipped_endpoints = << >>
    /\ task_result = << >>
    /\ completion = << >>
    /\ \E l1 \in SeqsUpTo(Docs("E1"), MaxLen), l2 \in SeqsUpTo(Docs("E2"), MaxLen),
          l3 \in SeqsUpTo(Docs("E3"), MaxLen) :
            endpoint_results = << << "E1", l1 >>, << "E2", l2 >>, << "E3", l3 >> >>
    /\ final_results = << >>
    /\ outcome = NoOutcome
    /\ ConfiguredAs(RegistryWith(TRUE), "")
    /\ self_endpoint_name = ""
    /\ write_endpoint = ""
    /\ NoCallers
    /\ CacheIdle

AggregateCall ==
    /\ pc = "aggregate"
    /\ final_results' = aggregate_results(endpoint_results)
    /\ pc' = "aggregated"
    /\ UNCHANGED << configVars, opsVars, cacheVars >>
    /\ UNCHANGED << nlweb_sites, enabled_endpoints, client_cache, endpoint_sites_cache,
                    retrieval_lock, populate_log, site_arg, site, num_results, loop_i,
                    tasks, skipped_endpoints, task_result, completion, endpoint_results,
                    outcome >>

NextAgg == AggregateCall

SpecAgg == InitAgg /\ [][NextAgg]_vars

(***************************************************************************)
(* Properties of _aggregate_results, checked under SpecAgg.                *)
(***************************************************************************)
Aggregated == pc = "aggregated"

UrlsOf(results) == [ i \in DOMAIN results |-> results[i][1] ]

ListOf(k) == endpoint_results[k][2]

\* every url some endpoint returned
AllInputUrls ==
    UNION { Range(UrlsOf(ListOf(k))) : k \in DOMAIN endpoint_results }

NoDuplicates(seq) == \A i, j \in DOMAIN seq : seq[i] = seq[j] => i = j

RECURSIVE RoundRobinFrom(_, _, _)
\* the results in interleave order: round r takes item r of every list
\* that has one, lists in order
RoundRobinFrom(items, r, k) ==
    IF \A j \in DOMAIN items : Len(items[j][2]) < r THEN << >>
    ELSE IF k > Len(items) THEN RoundRobinFrom(items, r + 1, 1)
    ELSE (IF Len(items[k][2]) >= r THEN << items[k][2][r] >> ELSE << >>)
         \o RoundRobinFrom(items, r, k + 1)

RoundRobin(items) == RoundRobinFrom(items, 1, 1)

RECURSIVE FirstEncounters(_, _)
\* the non-empty urls of seq, each at its first position only
FirstEncounters(seq, i) ==
    IF i > Len(seq) THEN << >>
    ELSE (IF seq[i] # "" /\ \A j \in 1 .. i - 1 : seq[j] # seq[i] THEN << seq[i] >> ELSE << >>)
         \o FirstEncounters(seq, i + 1)

ExampleDoc(u) == << u, JsonA1, "n", "s" >>

ExampleAB ==
    << << "A", << ExampleDoc("u1"), ExampleDoc("u2"), ExampleDoc("u3") >> >>,
       << "B", << ExampleDoc("u4"), ExampleDoc("u5") >> >> >>

\* item i of list k is the first encounter of its url in the interleave: no
\* list holds the url in an earlier round, or earlier in the same round
EmittedOnTurn(k, i) ==
    /\ ListOf(k)[i][1] # ""
    /\ \A k2 \in DOMAIN endpoint_results : \A i2 \in DOMAIN ListOf(k2) :
          ListOf(k2)[i2][1] = ListOf(k)[i][1] => (i2 > i \/ (i2 = i /\ k2 >= k))

\* C4: the merged output lists the urls in the order of their first
\* encounter in the round-robin interleave of the per-endpoint lists (one
\* item of every unexhausted endpoint per round, endpoints in iteration
\* order), later encounters being suppressed; two urls an endpoint emits on
\* its own turns keep the order that endpoint returned them in; and
\* A=[u1,u2,u3], B=[u4,u5] merge to [u1,u4,u2,u5,u3].
C4_RoundRobinOrder ==
    /\ Aggregated =>
         /\ UrlsOf(final_results) = FirstEncounters(UrlsOf(RoundRobin(endpoint_results)), 1)
         /\ \A k \in DOMAIN endpoint_results : \A i, j \in DOMAIN ListOf(k) :
              \A a, b \in DOMAIN final_results :
                ( /\ i < j
                  /\ EmittedOnTurn(k, i) /\ EmittedOnTurn(k, j)
                  /\ final_results[a][1] = ListOf(k)[i][1]
                  /\ final_results[b][1] = ListOf(k)[j][1] )
                => a < b
    /\ UrlsOf(aggregate_results(ExampleAB)) = << "u1", "u4", "u2", "u5", "u3" >>

C4_Witness ==
    /\ Aggregated
    /\ Len(ListOf(1)) = 2
    /\ Len(ListOf(2)) = 1
    /\ Len(final_results) = 2
    /\ ListOf(2)[1][1] = ListOf(1)[2][1]
    /\ UrlsOf(final_results) = << ListOf(1)[1][1], ListOf(2)[1][1] >>

\* C5 as stated: the merged output holds exactly one record for each
\* distinct url that occurs in any endpoint's result list.
C5_OneRecordPerUrl ==
    Aggregated =>
        /\ NoDuplicates(UrlsOf(final_results))
        /\ Range(UrlsOf(final_results)) = AllInputUrls

\* C5, amended: the merged output holds exactly one record for each
\* distinct non-empty url that occurs in any endpoint's result list; a
\* result whose url is the empty string gets no record.
C5_OneRecordPerNonEmptyUrl ==
    Aggregated =>
        /\ NoDuplicates(UrlsOf(final_results))
        /\ Range(UrlsOf(final_results)) = AllInputUrls \ { "" }

C5_Witness ==
    /\ Aggregated
    /\ "" \in AllInputUrls
    /\ \E u \in AllInputUrls \ { "" } :
          \A k \in DOMAIN endpoint_results : u \in Range(UrlsOf(ListOf(k)))
    /\ Len(final_results) = 2

OnlyEndpoint(k) == \A k2 \in DOMAIN endpoint_results : k2 # k => ListOf(k2) = << >>

\* C6 as stated: the aggregator run on the results of a single endpoint
\* whose list is L returns L unchanged, for every list L of 4-tuples.
C6_SingleEndpointUnchanged ==
    Aggregated =>
        \A k \in DOMAIN endpoint_results : OnlyEndpoint(k) => final_results = ListOf(k)

CleanList(L) ==
    /\ NoDuplicates(UrlsOf(L))
    /\ \A i \in DOMAIN L : L[i][1] # "" /\ L[i][2] # EmptyStr

\* C6, amended: the aggregator run on the results of a single endpoint
\* whose list L has pairwise distinct, non-empty urls and non-empty
\* payloads returns L unchanged, in order and in content.
C6_SingleCleanEndpointUnchanged ==
    Aggregated =>
        \A k \in DOMAIN endpoint_results :
            (OnlyEndpoint(k) /\ CleanList(ListOf(k))) => final_results = ListOf(k)

C6_Witness ==
    /\ Aggregated
    /\ OnlyEndpoint(2)
    /\ Len(ListOf(2)) = 2
    /\ CleanList(ListOf(2))
    /\ ListOf(2)[1][2] # ListOf(2)[2][2]
    /\ final_results = ListOf(2)

RECURSIVE Flatten(_)
\* the results of all endpoints, endpoints in iteration order
Flatten(items) == IF items = << >> THEN << >> ELSE items[1][2] \o Flatten(Tail(items))

\* the non-empty payloads contributed for url u, in endpoint iteration order
Contributions(u) ==
    LET all == Flatten(endpoint_results)
        Mine(r) == r[1] = u /\ r[2] # EmptyStr
        mine == SelectSeq(all, Mine)
    IN  [ i \in DOMAIN mine |-> mine[i][2] ]

Contributors(u) == { k \in DOMAIN endpoint_results : u \in Range(UrlsOf(ListOf(k))) }

ExampleSameUrl ==
    << << "A", << << "u1", JsonA1, "nA", "sA" >> >> >>,
       << "B", << << "u1", JsonB2, "nB", "sB" >> >> >> >>

\* C7: a url returned by two or more endpoints has exactly one record, and
\* its payload is the merge (merge_json_array, re-serialized) of the
\* payloads contributed for it, taken in endpoint iteration order, so that
\* it holds every key of every contributed payload; {"a":1} and {"b":2}
\* merge to one record with both keys.
C7_MergedPayload ==
    /\ Aggregated =>
         \A u \in AllInputUrls \ { "" } :
            Cardinality(Contributors(u)) >= 2 =>
              /\ Cardinality({ i \in DOMAIN final_results : final_results[i][1] = u }) = 1
              /\ \A i \in DOMAIN final_results :
                   final_results[i][1] = u =>
                     /\ json_loads(final_results[i][2]) = merge_json_array(Contributions(u))
                     /\ Len(Contributions(u)) >= 2 =>
                          final_results[i][2] = json_dumps(merge_json_array(Contributions(u)))
                     /\ \A c \in DOMAIN Contributions(u) :
                          DictKeys(json_loads(Contributions(u)[c]))
                            \subseteq DictKeys(json_loads(final_results[i][2]))
    /\ Len(aggregate_results(ExampleSameUrl)) = 1
    /\ DictKeys(json_loads(aggregate_results(ExampleSameUrl)[1][2])) = { "a", "b" }

C7_Witness ==
    /\ Aggregated
    /\ \E u \in AllInputUrls :
          /\ Cardinality(Contributors(u)) = 3
          /\ Len(Contributions(u)) >= 3
          /\ Contributions(u)[1] = JsonA1
          /\ Contributions(u)[2] = JsonA2
          /\ \E i \in DOMAIN final_results :
                /\ final_results[i][1] = u
                /\ json_loads(final_results[i][2]) = << << "a", "1" >>, << "c", "3" >>, << "b", "4" >> >>

(***************************************************************************)
(* Properties of search, checked under Spec.                               *)
(***************************************************************************)
SearchDone == pc = "done"

\* the for loop over the enabled endpoints has ended
LoopDone == pc \in { "gather", "done" }

Queried(e) == \E i \in DOMAIN tasks : tasks[i].endpoint = e

Succeeded == { i \in DOMAIN tasks : task_result[i].done /\ task_result[i].ok }

FailedTasks == { i \in DOMAIN tasks : task_result[i].done /\ ~task_result[i].ok }

\* C1: a search that dispatched a query raises the all-searches-failed
\* error if every query failed; if a query succeeded, an empty list
\* included, it returns, no failure of a backend reaches the caller, and its
\* output is merged from the result lists of exactly the endpoints that
\* succeeded.
C1_AllFailOrMergeOfSuccesses ==
    (SearchDone /\ tasks # << >>) =>
        /\ Succeeded = {} => outcome = Raised("ValueError", AllSearchesFailed)
        /\ Succeeded # {} =>
             /\ outcome.kind = "returned"
             /\ { endpoint_results[k][1] : k \in DOMAIN endpoint_results }
                  = { tasks[i].endpoint : i \in Succeeded }
             /\ Range(UrlsOf(final_results))
                  = UNION { Range(UrlsOf(task_result[i].results)) : i \in Succeeded } \ { "" }
             /\ \A k \in DOMAIN outcome.value : \E i \in Succeeded :
                  outcome.value[k][1] \in Range(UrlsOf(task_result[i].results))

C1_Witness ==
    /\ SearchDone
    /\ FailedTasks # {}
    /\ \E i \in Succeeded : task_result[i].results = << >>
    /\ \E i \in Succeeded : task_result[i].results # << >>
    /\ outcome.kind = "returned"
    /\ outcome.value # << >>

\* C2: a search for which no endpoint is eligible, or which could dispatch
\* no query, raises the no-valid-endpoints error, which is not the
\* all-searches-failed error, and has made no adapter search call; gather
\* is never reached without a task.
C2_NoEligibleEndpoints ==
    /\ NoValidEndpoints # AllSearchesFailed
    /\ (SearchDone /\ tasks = << >>) => outcome = Raised("ValueError", NoValidEndpoints)
    /\ (outcome.kind = "raised" /\ outcome.error = NoValidEndpoints) =>
          tasks = << >> /\ completion = << >>
    /\ pc = "gather" => tasks # << >>

C2_Witness ==
    /\ SearchDone
    /\ tasks = << >>
    /\ Len(skipped_endpoints) = Len(enabled_endpoints)
    /\ outcome = Raised("ValueError", NoValidEndpoints)

RECURSIVE ItemsByDispatch(_)
\* the successful results keyed by endpoint, in dispatch order
ItemsByDispatch(i) ==
    IF i > Len(tasks) THEN << >>
    ELSE (IF task_result[i].ok
          THEN << << tasks[i].endpoint, task_result[i].results >> >> ELSE << >>)
         \o ItemsByDispatch(i + 1)

\* C3: what search returns depends on the dispatch order and on each
\* endpoint's own result list only: every list is attached to the endpoint
\* that returned it, in dispatch position, whatever the order in which the
\* queries finished.
C3_IndependentOfCompletionOrder ==
    (SearchDone /\ outcome.kind = "returned") =>
        /\ endpoint_results = ItemsByDispatch(1)
        /\ \A k \in DOMAIN endpoint_results : \A j \in DOMAIN endpoint_results[k][2] :
              endpoint_results[k][2][j][3] = NameOf(endpoint_results[k][1])
        /\ outcome.value = SliceTo(aggregate_results(ItemsByDispatch(1)), num_results)

C3_Witness ==
    /\ SearchDone
    /\ outcome.kind = "returned"
    /\ Len(tasks) = 3
    /\ completion = << 3, 2, 1 >>
    /\ \A i \in DOMAIN tasks : task_result[i].ok /\ task_result[i].results # << >>
    /\ Len(outcome.value) >= 2

\* C8: for every limit >= 0 search returns at most limit entries, namely
\* the first limit entries of the merge of the complete per-endpoint lists:
\* the lists are merged as the adapters returned them and the merged list is
\* cut once.
C8_TruncateAfterMerge ==
    (SearchDone /\ outcome.kind = "returned") =>
        /\ Len(outcome.value) <= num_results
        /\ Len(outcome.value) = Min(num_results, Len(final_results))
        /\ \A k \in DOMAIN outcome.value : outcome.value[k] = final_results[k]
        /\ \A k \in DOMAIN endpoint_results : \E i \in DOMAIN tasks :
              /\ tasks[i].endpoint = endpoint_results[k][1]
              /\ endpoint_results[k][2] = task_result[i].results
        /\ final_results = aggregate_results(endpoint_results)

C8_Witness ==
    /\ SearchDone
    /\ outcome.kind = "returned"
    /\ num_results = 1
    /\ Len(final_results) = 3
    /\ \E k \in DOMAIN endpoint_results : Len(endpoint_results[k][2]) > num_results
    /\ Len(outcome.value) = 1

CachedSet(e, S) ==
    endpoint_sites_cache[e].state = "list" /\ Range(endpoint_sites_cache[e].sites) = S

\* the identifiers a normalized filter asks for
Requested(st) == IF st.isList THEN Range(st.l) ELSE { st.s }

\* a process-wide site restriction is configured
Restricted == Truthy(nlweb_sites) /\ nlweb_sites # ALL

\* C9 as stated: in every configuration an endpoint whose cached site set
\* is {siteX} gets no query from a search for siteY, gets one from a search
\* for siteX and from a search for "all", and for a filter of several
\* identifiers is queried iff one of them is in its cached set.
C9_SiteSkipEveryConfiguration ==
    \A e \in Endpoints :
        (LoopDone /\ CachedSet(e, { SiteX })) =>
            /\ site_arg = Str(SiteY) => ~Queried(e)
            /\ site_arg \in { Str(SiteX), ALL } => Queried(e)
            /\ (site_arg # ALL /\ site.isList) =>
                  (Queried(e) <=> Requested(site) \cap { SiteX } # {})

\* C9, amended: an endpoint whose cached site set is {siteX} gets no query
\* from a search for siteY and gets one from a search for siteX; from a
\* search for "all" it gets one if no site restriction is configured, and
\* otherwise iff the configured restriction, which replaces the wildcard,
\* names siteX; for a filter of several identifiers an endpoint with a
\* cached site list is queried iff one of them is in that list.
C9_SiteSkip ==
    /\ \A e \in Endpoints :
        (LoopDone /\ CachedSet(e, { SiteX })) =>
            /\ site_arg = Str(SiteY) => ~Queried(e)
            /\ site_arg = Str(SiteX) => Queried(e)
            /\ (site_arg = ALL /\ ~Restricted) => Queried(e)
            /\ (site_arg = ALL /\ Restricted) =>
                  (Queried(e) <=> Requested(nlweb_sites) \cap { SiteX } # {})
    /\ \A e \in Endpoints :
        (LoopDone /\ endpoint_sites_cache[e].state = "list" /\ site.isList) =>
            (Queried(e) <=> Requested(site) \cap Range(endpoint_sites_cache[e].sites) # {})

C9_Witness ==
    /\ LoopDone
    /\ CachedSet("E1", { SiteX })
    /\ CachedSet("E2", { SiteY, SiteZ })
    /\ site_arg = Str(SiteY)
    /\ ~Queried("E1")
    /\ Queried("E2")

PopulationFailed(e) == populate_log[e] \in { "raise", "none", "noclient" }

IndexOf(seq, x) == CHOOSE i \in DOMAIN seq : seq[i] = x

\* C10: when filling an endpoint's site index failed (get_sites raised or
\* returned None, or the adapter could not be obtained), no error of it
\* reaches the caller of search, the index holds None for the endpoint, and
\* in that search and every later one the endpoint is never skipped: it is
\* queried whenever its adapter is there.
C10_PopulationFailureKeepsEligible ==
    \A e \in Endpoints :
        PopulationFailed(e) =>
            /\ endpoint_sites_cache[e] = NoneSites
            /\ e \notin Range(skipped_endpoints)
            /\ outcome.kind = "raised" =>
                  /\ outcome.type = "ValueError"
                  /\ outcome.error \in { NoValidEndpoints, AllSearchesFailed }
            /\ (pc # "idle" /\ loop_i > IndexOf(enabled_endpoints, e)
                  /\ CacheKey(e) \in client_cache) => Queried(e)

C10_Witness ==
    /\ SearchDone
    /\ site = Str(SiteY)
    /\ populate_log = [ e \in Endpoints |-> IF e = "E1" THEN "raise"
                                            ELSE IF e = "E2" THEN "none" ELSE "noclient" ]
    /\ Queried("E1") /\ Queried("E2") /\ Queried("E3")
    /\ outcome.kind = "returned"

(***************************************************************************)
(* Specification of construction: VectorDBClient(endpoint_name) under      *)
(* every configuration of two registered endpoints.                        *)
(***************************************************************************)
\* the five kinds the code knows and one it does not
DbTypes ==
    { "azure_ai_search", "snowflake_cortex_search", "opensearch", "qdrant", "milvus",
      "elasticsearch" }

\* every configuration of the endpoint called name: kind, enabled flag and
\* each credential absent or present
Configs(name) ==
    { EndpointConfig(name, k, en, key, ep, path) :
        k \in DbTypes, en \in BOOLEAN, key \in { "", "key" },
        ep \in { "", "https://host" }, path \in { "", "/data" } }

Registries == { << c1, c2 >> : c1 \in Configs("E1"), c2 \in Configs("E2") }

\* CONFIG.write_endpoint: none, a registered name, a name that is not registered
ConfiguredWriteEndpoints == { "", "E2", "E9" }

\* the endpoint_name argument: none, a registered name, a name that is not
RequestedNames == { "", "E1", "E2", "E9" }

InitConstruct ==
    /\ handler = NoHandler
    /\ retrieval_endpoints \in Registries
    /\ config_write_endpoint \in ConfiguredWriteEndpoints
    /\ nlweb_sites = ALL
    /\ enabled_endpoints = << >>
    /\ self_endpoint_name = ""
    /\ write_endpoint = ""
    /\ client_cache = {}
    /\ endpoint_sites_cache = [ e \in Endpoints |-> Absent ]
    /\ retrieval_lock = FALSE
    /\ pc = "new"
    /\ outcome = NoOutcome
    /\ SearchIdle
    /\ NoCallers
    /\ CacheIdle

NextConstruct == \E name \in RequestedNames : Construct(name)

SpecConstruct == InitConstruct /\ [][NextConstruct]_vars

(***************************************************************************)
(* Properties of construction, checked under SpecConstruct.                *)
(***************************************************************************)
Constructed == pc = "constructed"

ConstructionFailed == pc = "failed" /\ outcome.kind = "raised" /\ outcome.type = "ValueError"

AllEnabledMode == self_endpoint_name = ""

\* the registered endpoints that are enabled and pass the credential check
EnabledAndUsable ==
    { retrieval_endpoints[i].name : i \in
        { j \in DOMAIN retrieval_endpoints :
            retrieval_endpoints[j].enabled /\ has_valid_credentials(retrieval_endpoints[j]) } }

\* C16: construction raises the configuration error (a ValueError) when the
\* requested endpoint name is not registered and, in all-enabled mode, when
\* no registered endpoint is both enabled and passes the credential check;
\* when all-enabled construction succeeds, the active endpoints are, in
\* registry order and each once, exactly the endpoints that are enabled and
\* pass the credential check, and there is at least one.
C16_ConstructionFailsOrActiveSetExact ==
    pc # "new" =>
        /\ (~AllEnabledMode /\ self_endpoint_name \notin RegistryNames(retrieval_endpoints))
              => ConstructionFailed
        /\ (AllEnabledMode /\ EnabledAndUsable = {}) => ConstructionFailed
        /\ (AllEnabledMode /\ Constructed) =>
              /\ enabled_endpoints # << >>
              /\ Range(enabled_endpoints) = EnabledAndUsable
              /\ NoDuplicates(enabled_endpoints)
              /\ \A a, b \in DOMAIN enabled_endpoints : a < b =>
                    \E i, j \in DOMAIN retrieval_endpoints :
                        /\ i < j
                        /\ retrieval_endpoints[i].name = enabled_endpoints[a]
                        /\ retrieval_endpoints[j].name = enabled_endpoints[b]

C16_Witness ==
    /\ Constructed
    /\ AllEnabledMode
    /\ enabled_endpoints = << "E2" >>
    /\ retrieval_endpoints[1].enabled
    /\ ~has_valid_credentials(retrieval_endpoints[1])
    /\ config_write_endpoint = "E2"

\* the table: what each kind needs of API key, API endpoint and local path
UsableByTable(kind, has_key, has_endpoint, has_path) ==
    CASE kind \in { "azure_ai_search", "snowflake_cortex_search", "opensearch" }
            -> has_key /\ has_endpoint
      [] kind = "qdrant" -> has_path \/ has_endpoint
      [] kind = "milvus" -> has_path
      [] OTHER -> FALSE

TableSays(config) ==
    UsableByTable(config.db_type, config.api_key # "", config.api_endpoint # "",
                  config.database_path # "")

SameCredentials(c, d) ==
    /\ c.db_type = d.db_type
    /\ c.api_key = d.api_key
    /\ c.api_endpoint = d.api_endpoint
    /\ c.database_path = d.database_path

\* C17: for every kind and every combination of credentials the credential
\* check answers what the table says (API key and API endpoint for
\* azure_ai_search, snowflake_cortex_search and opensearch; local path or
\* API endpoint for qdrant; local path for milvus; never for another kind);
\* it depends on nothing else (not on the name, not on the enabled flag);
\* and the active set of an all-enabled client, like the validation of the
\* write endpoint, follows the table.
C17_CredentialTable ==
    /\ \A i \in DOMAIN retrieval_endpoints :
          has_valid_credentials(retrieval_endpoints[i]) = TableSays(retrieval_endpoints[i])
    /\ \A i, j \in DOMAIN retrieval_endpoints :
          SameCredentials(retrieval_endpoints[i], retrieval_endpoints[j]) =>
              has_valid_credentials(retrieval_endpoints[i])
                = has_valid_credentials(retrieval_endpoints[j])
    /\ (Constructed /\ AllEnabledMode) =>
          \A i \in DOMAIN retrieval_endpoints :
              retrieval_endpoints[i].name \in Range(enabled_endpoints)
                <=> (retrieval_endpoints[i].enabled /\ TableSays(retrieval_endpoints[i]))
    /\ (Constructed /\ write_endpoint # "") =>
          TableSays(ConfigOf(retrieval_endpoints, write_endpoint))

C17_Witness ==
    /\ Constructed
    /\ AllEnabledMode
    /\ retrieval_endpoints[1].db_type = "qdrant"
    /\ retrieval_endpoints[1].api_key = ""
    /\ retrieval_endpoints[1].api_endpoint # ""
    /\ retrieval_endpoints[1].database_path = ""
    /\ retrieval_endpoints[2].db_type = "milvus"
    /\ retrieval_endpoints[2].enabled
    /\ retrieval_endpoints[2].api_key # ""
    /\ retrieval_endpoints[2].api_endpoint # ""
    /\ retrieval_endpoints[2].database_path = ""
    /\ enabled_endpoints = << "E1" >>

(***************************************************************************)
(* Specification of the adapter cache: get_client calls of several client  *)
(* instances, followed step by step.  An adapter instance is the number    *)
(* built[key] had when its constructor returned; 0 is no instance.  The    *)
(* body of "async with _client_cache_lock" is taken one statement at a     *)
(* time, so that nothing rests on a constructor never suspending.          *)
(***************************************************************************)
MaxGetClientCalls == 2

GetClientCallers == 1 .. MaxGetClientCalls

\* self.enabled_endpoints of the client instances that call get_client: one
\* built over all endpoints, one pinned to E1, one pinned to E3
ClientInstances == { EndpointOrder, << "E1" >>, << "E3" >> }

GcIdle == [ pc |-> "idle", enabled |-> << >>, e |-> "", got |-> 0 ]

\* variant of CacheLockFree: the lock is not waited for
CacheLockIgnored(lock) == TRUE

\* line 324: "async with _client_cache_lock" goes on when the lock is free
CacheLockFree(lock) == ~lock

\* get_client(e) is called on a client whose enabled_endpoints is enabled;
\* lines 314-321
GetClientBegin(p, enabled, e) ==
    /\ UNCHANGED cacheRest
    /\ gc[p].pc \in { "idle", "returned", "raised" }
    /\ gc' = [ gc EXCEPT ![p] =
                 [ pc |-> IF e \in Range(enabled) THEN "acquire" ELSE "raised",
                   enabled |-> enabled, e |-> e, got |-> 0 ] ]
    /\ UNCHANGED << cache_lock, adapters, built, client_cache >>

\* line 324: the lock is taken
GetClientAcquire(p) ==
    /\ UNCHANGED cacheRest
    /\ gc[p].pc = "acquire"
    /\ CacheLockFree(cache_lock)
    /\ cache_lock' = TRUE
    /\ gc' = [ gc EXCEPT ![p].pc = "locked" ]
    /\ UNCHANGED << adapters, built, client_cache >>

\* lines 325-326: a cached adapter is returned and the lock released
GetClientLookup(p) ==
    /\ UNCHANGED cacheRest
    /\ gc[p].pc = "locked"
    /\ IF CacheKey(gc[p].e) \in client_cache
       THEN /\ gc' = [ gc EXCEPT ![p].pc = "returned",
                                 ![p].got = adapters[CacheKey(gc[p].e)] ]
            /\ cache_lock' = FALSE
       ELSE /\ gc' = [ gc EXCEPT ![p].pc = "create" ]
            /\ UNCHANGED cache_lock
    /\ UNCHANGED << adapters, built, client_cache >>

\* variant of GetClientCreate: a failed construction is remembered in the
\* cache and the lock is kept
GetClientCreateCachesFailure(p, ctor_ok) ==
    /\ UNCHANGED cacheRest
    /\ gc[p].pc = "create"
    /\ LET key == CacheKey(gc[p].e)
       IN  IF ctor_ok
           THEN /\ built' = [ built EXCEPT ![key] = @ + 1 ]
                /\ gc' = [ gc EXCEPT ![p].pc = "store", ![p].got = built[key] + 1 ]
                /\ UNCHANGED << cache_lock, client_cache >>
           ELSE /\ gc' = [ gc EXCEPT ![p].pc = "raised" ]
                /\ client_cache' = client_cache \cup { key }
                /\ UNCHANGED << built, cache_lock >>
    /\ UNCHANGED adapters

\* lines 331-344: the adapter's constructor runs; if it raises, or the kind
\* is none of the five, the error leaves get_client and the lock is released
GetClientCreate(p, ctor_ok) ==
    /\ UNCHANGED cacheRest
    /\ gc[p].pc = "create"
    /\ LET key == CacheKey(gc[p].e)
           supported == DbType(gc[p].e) \in
                          { "azure_ai_search", "milvus", "opensearch", "qdrant",
                            "snowflake_cortex_search" }
       IN  IF supported /\ ctor_ok
           THEN /\ built' = [ built EXCEPT ![key] = @ + 1 ]
                /\ gc' = [ gc EXCEPT ![p].pc = "store", ![p].got = built[key] + 1 ]
                /\ UNCHANGED cache_lock
           ELSE /\ gc' = [ gc EXCEPT ![p].pc = "raised" ]
                /\ cache_lock' = FALSE
                /\ UNCHANGED built
    /\ UNCHANGED << adapters, client_cache >>

\* lines 347-348: the new adapter is stored and returned, the lock released
GetClientStore(p) ==
    /\ UNCHANGED cacheRest
    /\ gc[p].pc = "store"
    /\ client_cache' = client_cache \cup { CacheKey(gc[p].e) }
    /\ adapters' = [ adapters EXCEPT ![CacheKey(gc[p].e)] = gc[p].got ]
    /\ gc' = [ gc EXCEPT ![p].pc = "returned" ]
    /\ cache_lock' = FALSE
    /\ UNCHANGED built

InitCache ==
    /\ handler = NoHandler
    /\ ConfiguredAs(RegistryWith(TRUE), "")
    /\ nlweb_sites = ALL
    /\ enabled_endpoints = EndpointOrder
    /\ self_endpoint_name = ""
    /\ write_endpoint = ""
    /\ client_cache = {}
    /\ endpoint_sites_cache = [ e \in Endpoints |-> Absent ]
    /\ retrieval_lock = FALSE
    /\ pc = "idle"
    /\ outcome = NoOutcome
    /\ SearchIdle
    /\ NoCallers
    /\ cache_lock = FALSE
    /\ adapters = [ k \in CacheKeys |-> 0 ]
    /\ built = [ k \in CacheKeys |-> 0 ]
    /\ gc = [ p \in GetClientCallers |-> GcIdle ]

NextCache ==
    \E p \in GetClientCallers :
        \/ \E enabled \in ClientInstances, e \in Endpoints : GetClientBegin(p, enabled, e)
        \/ GetClientAcquire(p)
        \/ GetClientLookup(p)
        \/ \E ctor_ok \in CtorOutcomes(gc[p].e) : GetClientCreate(p, ctor_ok)
        \/ GetClientStore(p)

SpecCache == InitCache /\ [][NextCache]_vars

(***************************************************************************)
(* Properties of the adapter cache, checked under SpecCache.               *)
(***************************************************************************)
\* the calls that returned the adapter of key k
ReturnedFor(k) == { p \in GetClientCallers : gc[p].pc = "returned" /\ CacheKey(gc[p].e) = k }

\* C11: whatever the interleaving of the get_client calls of the client
\* instances, at most one adapter instance is ever constructed for a cache
\* key, every call that returns for the key returns the instance the cache
\* holds, the same for all, and an entry of the cache, once made, is never
\* replaced and never removed.
C11_AdapterIdentity ==
    /\ [](\A k \in CacheKeys :
            /\ built[k] <= 1
            /\ k \in client_cache <=> adapters[k] # 0
            /\ \A p \in ReturnedFor(k) : gc[p].got # 0 /\ gc[p].got = adapters[k]
            /\ \A p, q \in ReturnedFor(k) : gc[p].got = gc[q].got)
    /\ [][\A k \in CacheKeys :
            adapters[k] # 0 => (adapters'[k] = adapters[k] /\ k \in client_cache')]_vars

C11_Witness ==
    /\ Cardinality(ReturnedFor(CacheKey("E1"))) >= 2
    /\ \E p, q \in ReturnedFor(CacheKey("E1")) :
          /\ p # q
          /\ gc[p].enabled # gc[q].enabled
          /\ gc[p].got = 1
          /\ gc[q].got = 1
    /\ built[CacheKey("E1")] = 1

(***************************************************************************)
(* The facade operations, caller by caller.                                *)
(* call[p] holds the operation caller p runs: its name (op), its           *)
(* endpoint_name argument (arg, "" for None), whether it runs on a         *)
(* temporary client built for arg (temp), the normalized site filter of a  *)
(* search, the index of the loop over the endpoints (i), the sites         *)
(* get_sites has collected, the site index entry of the temporary client   *)
(* (tcache), the adapter calls it has made so far (calls) and what it      *)
(* returned or raised (outcome).  An adapter call is the record            *)
(* [endpoint, method, state, value, raised]: state is "pending" (a query   *)
(* task not yet finished), "raised", "none" (None was returned) or         *)
(* "value".  A step is what the coroutine does between two suspensions: an *)
(* await of an adapter is taken together with the code that follows it.    *)
(***************************************************************************)
CallIdle ==
    [ op |-> "none", arg |-> "", temp |-> FALSE, pc |-> "idle", site |-> ALL, i |-> 1,
      sites |-> {}, tcache |-> Absent, calls |-> << >>, outcome |-> NoOutcome ]

\* what an await of an adapter method gave
AdapterRaised(err) == [ state |-> "raised", value |-> << >>, raised |-> err ]
AdapterNone == [ state |-> "none", value |-> << >>, raised |-> NoOutcome ]
AdapterValue(v) == [ state |-> "value", value |-> v, raised |-> NoOutcome ]
AdapterPending == [ state |-> "pending", value |-> << >>, raised |-> NoOutcome ]

\* the adapter call of method on endpoint e that gave res
AdapterCall(e, method, res) ==
    [ endpoint |-> e, method |-> method, state |-> res.state, value |-> res.value,
      raised |-> res.raised ]

\* what the adapter's get_sites gave, as an adapter call result
GetSitesResult(got) ==
    CASE got.state = "raise" -> AdapterRaised(Raised("NotImplementedError", "get_sites"))
      [] got.state = "none"  -> AdapterNone
      [] OTHER               -> AdapterValue(got.sites)

ReturnedNone == [ kind |-> "returned_none", type |-> "", error |-> "", value |-> << >> ]

\* the error get_client raises: line 315, or the adapter constructor's own
GetClientError(enabled, e) ==
    IF e \notin Range(enabled)
    THEN Raised("ValueError", "Endpoint is not in enabled endpoints")
    ELSE Raised("ConstructorError", "adapter constructor failed")

\* the client an operation runs on: self, or the temporary client of
\* lines 571, 670 and 749, whose only endpoint is the one requested
EnabledOf(c) == IF c.temp THEN << c.arg >> ELSE enabled_endpoints
EndpointNameOf(c) == IF c.temp THEN c.arg ELSE self_endpoint_name

\* "async with self._retrieval_lock" is reached: the coroutine goes on if
\* the lock of its client is free (that of a temporary client always is)
\* and queues on it otherwise
EnterLock(p, c) ==
    /\ call' = [ call EXCEPT ![p] =
                   [ c EXCEPT !.pc = IF c.temp \/ ~retrieval_lock THEN "run" ELSE "wait" ] ]
    /\ retrieval_lock' = (retrieval_lock \/ ~c.temp)

\* variant of LeaveLock: an exception leaves the lock held
LeaveLockHeldOnError(p, c, result) ==
    /\ call' = [ call EXCEPT ![p] = [ c EXCEPT !.pc = "done", !.outcome = result ] ]
    /\ retrieval_lock' = IF c.temp \/ result.kind = "raised" THEN retrieval_lock ELSE FALSE

\* the operation ends inside "async with": the lock of its client is released
LeaveLock(p, c, result) ==
    /\ call' = [ call EXCEPT ![p] = [ c EXCEPT !.pc = "done", !.outcome = result ] ]
    /\ retrieval_lock' = IF c.temp THEN retrieval_lock ELSE FALSE

\* the operation ends before it reaches "async with"
EndUnlocked(p, c, result) ==
    /\ call' = [ call EXCEPT ![p] = [ c EXCEPT !.pc = "done", !.outcome = result ] ]
    /\ UNCHANGED retrieval_lock

\* a coroutine queued on self._retrieval_lock gets it
LockGranted(p) ==
    /\ p \in callers
    /\ UNCHANGED opsRest
    /\ call[p].pc = "wait"
    /\ ~retrieval_lock
    /\ retrieval_lock' = TRUE
    /\ call' = [ call EXCEPT ![p].pc = "run" ]
    /\ UNCHANGED << client_cache, endpoint_sites_cache >>

\* a call of op with the endpoint_name argument arg starts
NewCall(op, arg, temp, st) ==
    [ CallIdle EXCEPT !.op = op, !.arg = arg, !.temp = temp, !.site = st ]

\* search(query, site = st, endpoint_name = arg), lines 560-589.  With an
\* endpoint_name the call is handed to a temporary client, whose search
\* normalizes the filter again and runs the same loop over its one endpoint
SearchCall(p, st, arg) ==
    /\ p \in callers
    /\ UNCHANGED opsRest
    /\ call[p].pc \in { "idle", "done" }
    /\ LET configured == ConfiguredSite(st, nlweb_sites)
           made == VectorDBClientInit(retrieval_endpoints, arg, config_write_endpoint)
       IN  IF arg = ""
           THEN EnterLock(p, NewCall("search", arg, FALSE, ProcessSite(configured)))
           ELSE IF arg \notin RegistryNames(retrieval_endpoints)
           THEN EndUnlocked(p, NewCall("search", arg, FALSE, configured),
                            Raised("ValueError", InvalidEndpoint))
           ELSE IF ~made.ok
           THEN EndUnlocked(p, NewCall("search", arg, FALSE, configured), made.error)
           ELSE EnterLock(p, NewCall("search", arg, TRUE,
                                     NormalizeSite(configured, nlweb_sites)))
    /\ UNCHANGED << client_cache, endpoint_sites_cache >>

IsQuery(x) == x.method \in { "search", "search_all_sites" }

\* lines 591-613 on the client the search runs on: one iteration of the for
\* loop and, after the last one, the check that a task was created.  got
\* is what the adapter's get_sites gives if it is asked and ctor_ok whether
\* the adapter's constructor succeeds if it is run
SearchStep(p, got, ctor_ok) ==
    /\ p \in callers
    /\ UNCHANGED opsRest
    /\ call[p].op = "search"
    /\ call[p].pc = "run"
    /\ LET c == call[p]
           enabled == EnabledOf(c)
           e == enabled[c.i]
           cached == IF c.temp THEN c.tcache ELSE endpoint_sites_cache[e]
           fetch == c.site # ALL /\ cached.state = "absent"
           c1 == IF fetch THEN GetClient(client_cache, enabled, e, ctor_ok)
                 ELSE [ ok |-> TRUE, cache |-> client_cache ]
           populated == IF fetch THEN PopulateSites(c1.ok, got)
                        ELSE [ raised |-> FALSE, entry |-> cached ]
           has == ~populated.raised /\ (c.site = ALL \/ HasSite(populated.entry, c.site))
           c2 == IF has THEN GetClient(c1.cache, enabled, e, ctor_ok)
                 ELSE [ ok |-> FALSE, cache |-> c1.cache ]
           calls == c.calls
                    \o (IF fetch /\ c1.ok
                        THEN << AdapterCall(e, "get_sites", GetSitesResult(got)) >>
                        ELSE << >>)
                    \o (IF has /\ c2.ok
                        THEN << AdapterCall(e, IF c.site = ALL THEN "search_all_sites"
                                               ELSE "search", AdapterPending) >>
                        ELSE << >>)
           after == [ c EXCEPT !.i = c.i + 1, !.calls = calls,
                               !.tcache = IF c.temp THEN populated.entry ELSE @ ]
           last == c.i = Len(enabled)
       IN  /\ client_cache' = c2.cache
           /\ endpoint_sites_cache' =
                IF c.temp THEN endpoint_sites_cache
                ELSE [ endpoint_sites_cache EXCEPT ![e] = populated.entry ]
           /\ IF last /\ NoTasks(SelectSeq(calls, IsQuery))
              THEN LeaveLock(p, after, Raised("ValueError", NoValidEndpoints))
              ELSE /\ call' = [ call EXCEPT ![p] =
                                  [ after EXCEPT !.pc = IF last THEN "gather" ELSE "run" ] ]
                   /\ UNCHANGED retrieval_lock

\* a query task of the search finishes: the adapter returned a list or raised
SearchTaskDone(p, k, res) ==
    /\ p \in callers
    /\ UNCHANGED opsRest
    /\ call[p].op = "search"
    /\ call[p].pc \in { "run", "gather" }
    /\ k \in DOMAIN call[p].calls
    /\ call[p].calls[k].state = "pending"
    /\ call' = [ call EXCEPT ![p].calls[k] = AdapterCall(@.endpoint, @.method, res) ]
    /\ UNCHANGED << retrieval_lock, client_cache, endpoint_sites_cache >>

\* lines 616-654: gather returns once every task is done
SearchFinish(p) ==
    /\ p \in callers
    /\ UNCHANGED opsRest
    /\ call[p].op = "search"
    /\ call[p].pc = "gather"
    /\ \A k \in DOMAIN call[p].calls : call[p].calls[k].state # "pending"
    /\ LET queries == SelectSeq(call[p].calls, IsQuery)
           results == [ k \in DOMAIN queries |->
                          [ done |-> TRUE, ok |-> queries[k].state # "raised",
                            results |-> queries[k].value ] ]
           endpoint_names == [ k \in DOMAIN queries |-> queries[k].endpoint ]
           merged == aggregate_results(ProcessResults(endpoint_names, results))
       IN  LeaveLock(p, call[p], SearchOutcome(results, merged, MaxLimit))
    /\ UNCHANGED << client_cache, endpoint_sites_cache >>

\* search_by_url(url, endpoint_name = arg), lines 668-673
SearchByUrlCall(p, arg) ==
    /\ p \in callers
    /\ UNCHANGED opsRest
    /\ call[p].pc \in { "idle", "done" }
    /\ LET made == VectorDBClientInit(retrieval_endpoints, arg, config_write_endpoint)
       IN  IF arg # "" /\ arg # self_endpoint_name
           THEN IF made.ok THEN EnterLock(p, NewCall("search_by_url", arg, TRUE, ALL))
                ELSE EndUnlocked(p, NewCall("search_by_url", arg, FALSE, ALL), made.error)
           ELSE EnterLock(p, NewCall("search_by_url", arg, FALSE, ALL))
    /\ UNCHANGED << client_cache, endpoint_sites_cache >>

\* variant of IsHit: every result that is not None counts
IsHitNotNone(res) == res.state = "value"

\* line 686, "if result": the probe returned something that is not empty
IsHit(res) == res.state = "value" /\ Len(res.value) > 0

\* what search_by_url hands back for an adapter result it returns as it is
ResultOf(res) ==
    CASE res.state = "raised" -> res.raised
      [] res.state = "none"   -> ReturnedNone
      [] OTHER                -> Returned(res.value)

\* lines 676-713: with a client pinned to one endpoint, the one adapter
\* call and its result, every exception raised again; otherwise one probe
\* of the loop over the enabled endpoints, an exception of get_client or of
\* the adapter being caught, and None after the last miss
SearchByUrlStep(p, res, ctor_ok) ==
    /\ p \in callers
    /\ UNCHANGED opsRest
    /\ call[p].op = "search_by_url"
    /\ call[p].pc = "run"
    /\ LET c == call[p]
           enabled == EnabledOf(c)
           e == IF EndpointNameOf(c) # "" THEN EndpointNameOf(c) ELSE enabled[c.i]
           client == GetClient(client_cache, enabled, e, ctor_ok)
           probed == [ c EXCEPT !.i = c.i + 1,
                                !.calls = IF client.ok
                                          THEN Append(@, AdapterCall(e, "search_by_url", res))
                                          ELSE @ ]
       IN  /\ client_cache' = client.cache
           /\ IF EndpointNameOf(c) # ""
              THEN LeaveLock(p, probed,
                             IF client.ok THEN ResultOf(res) ELSE GetClientError(enabled, e))
              ELSE IF client.ok /\ IsHit(res)
              THEN LeaveLock(p, probed, Returned(res.value))
              ELSE IF c.i = Len(enabled)
              THEN LeaveLock(p, probed, ReturnedNone)
              ELSE /\ call' = [ call EXCEPT ![p] = probed ]
                   /\ UNCHANGED retrieval_lock
    /\ UNCHANGED endpoint_sites_cache

\* get_sites(endpoint_name = arg), lines 747-752
GetSitesCall(p, arg) ==
    /\ p \in callers
    /\ UNCHANGED opsRest
    /\ call[p].pc \in { "idle", "done" }
    /\ LET made == VectorDBClientInit(retrieval_endpoints, arg, config_write_endpoint)
       IN  IF arg # "" /\ arg # self_endpoint_name
           THEN IF made.ok THEN EnterLock(p, NewCall("get_sites", arg, TRUE, ALL))
                ELSE EndUnlocked(p, NewCall("get_sites", arg, FALSE, ALL), made.error)
           ELSE EnterLock(p, NewCall("get_sites", arg, FALSE, ALL))
    /\ UNCHANGED << client_cache, endpoint_sites_cache >>

\* list(all_sites): the sites of the set, each once, in any order
Listings(all_sites) ==
    { l \in SeqsUpTo(all_sites, Cardinality(all_sites)) :
        Len(l) = Cardinality(all_sites) /\ Range(l) = all_sites }

\* lines 757-759 and 773-803: what get_sites of a client pinned to one
\* endpoint returns: the adapter's list, and the empty list when the
\* adapter could not be obtained, raised or returned None
PinnedSites(client_ok, res) ==
    IF client_ok /\ res.state = "value" THEN Returned(res.value)
    ELSE Returned(<< >>)

\* variant of CollectSites: the sites of an endpoint replace the set
CollectSitesLast(all_sites, client_ok, res) ==
    IF client_ok /\ res.state = "value" /\ Len(res.value) > 0
    THEN Range(res.value)
    ELSE all_sites

\* lines 764-770: all_sites after one endpoint of the loop
CollectSites(all_sites, client_ok, res) ==
    IF client_ok /\ res.state = "value" /\ Len(res.value) > 0
    THEN all_sites \cup Range(res.value)
    ELSE all_sites

\* lines 755-803: with a client pinned to one endpoint, the one adapter
\* call; otherwise one endpoint of the loop and, after the last, the
\* listing of the set
GetSitesStep(p, got, ctor_ok) ==
    /\ p \in callers
    /\ UNCHANGED opsRest
    /\ call[p].op = "get_sites"
    /\ call[p].pc = "run"
    /\ LET c == call[p]
           enabled == EnabledOf(c)
           e == IF EndpointNameOf(c) # "" THEN EndpointNameOf(c) ELSE enabled[c.i]
           client == GetClient(client_cache, enabled, e, ctor_ok)
           res == GetSitesResult(got)
           asked == [ c EXCEPT !.i = c.i + 1,
                               !.sites = CollectSites(@, client.ok, res),
                               !.calls = IF client.ok
                                         THEN Append(@, AdapterCall(e, "get_sites", res))
                                         ELSE @ ]
       IN  /\ client_cache' = client.cache
           /\ IF EndpointNameOf(c) # ""
              THEN LeaveLock(p, asked, PinnedSites(client.ok, res))
              ELSE IF c.i = Len(enabled)
              THEN \E listing \in Listings(asked.sites) :
                      LeaveLock(p, asked, Returned(listing))
              ELSE /\ call' = [ call EXCEPT ![p] = asked ]
                   /\ UNCHANGED retrieval_lock
    /\ UNCHANGED endpoint_sites_cache

NoWriteEndpoint(op) ==
    IF op = "upload_documents" THEN "No write endpoint configured for upload operations"
    ELSE "No write endpoint configured for delete operations"

\* variant of WriteEndpointMissing: the check is left out
WriteEndpointMissingNever(w) == FALSE

\* lines 484 and 520: not self.write_endpoint
WriteEndpointMissing(w) == w = ""

\* upload_documents(documents) and delete_documents_by_site(site), lines
\* 484-487 and 520-523
WriteCall(p, op) ==
    /\ p \in callers
    /\ UNCHANGED opsRest
    /\ call[p].pc \in { "idle", "done" }
    /\ IF WriteEndpointMissing(write_endpoint)
       THEN EndUnlocked(p, NewCall(op, "", FALSE, ALL),
                        Raised("ValueError", NoWriteEndpoint(op)))
       ELSE EnterLock(p, NewCall(op, "", FALSE, ALL))
    /\ UNCHANGED << client_cache, endpoint_sites_cache >>

\* variant of WriteOutcome: a failure is turned into a count of 0
WriteOutcomeSwallowed(res) ==
    IF res.state = "raised" THEN Returned(<< 0 >>) ELSE Returned(res.value)

\* lines 492-507 and 528-543: the count is returned, an exception is
\* logged and raised again
WriteOutcome(res) ==
    IF res.state = "raised" THEN res.raised ELSE Returned(res.value)

\* lines 490-507 and 526-543: the adapter of the write endpoint is
\* obtained from self and called
WriteStep(p, res, ctor_ok) ==
    /\ p \in callers
    /\ UNCHANGED opsRest
    /\ call[p].op \in { "upload_documents", "delete_documents_by_site" }
    /\ call[p].pc = "run"
    /\ LET c == call[p]
           client == GetClient(client_cache, enabled_endpoints, write_endpoint, ctor_ok)
           called == [ c EXCEPT !.calls = IF client.ok
                                          THEN Append(@, AdapterCall(write_endpoint, c.op, res))
                                          ELSE @ ]
       IN  /\ client_cache' = client.cache
           /\ LeaveLock(p, called,
                        IF client.ok THEN WriteOutcome(res)
                        ELSE GetClientError(enabled_endpoints, write_endpoint))
    /\ UNCHANGED endpoint_sites_cache

(***************************************************************************)
(* Specifications of the facade operations of one client.  The client is  *)
(* built over the registry in which E3 is registered but not enabled: over *)
(* the enabled endpoints E1 and E2, or pinned to E2, with no write         *)
(* endpoint or with E1 or E3 as write endpoint.  SpecOps has one caller,   *)
(* whose calls follow one another; SpecConcurrent has two, whose calls     *)
(* overlap, on the client built over E1 and E2 that writes to E1.          *)
(***************************************************************************)
Callers == { "c1", "c2" }

\* the endpoint_name argument of a call: none, E1, E2, a name not registered
EndpointArgs == { "", "E1", "E2", "E9" }

\* the site argument of a search
OpsSiteArgs == { ALL, Str(SiteX), Str(SiteY) }

WriteOps == { "upload_documents", "delete_documents_by_site" }

BackendDown == Raised("ConnectionError", "backend unreachable")

\* what an adapter's search_by_url gives: an error, None, an empty result, a document
SearchByUrlOutcomes(e) ==
    { AdapterRaised(BackendDown), AdapterNone, AdapterValue(<< >>),
      AdapterValue(Doc(e, "u1", JsonA1)) }

\* what an adapter's search and search_all_sites give
QueryOutcomes(e) == { AdapterRaised(BackendDown), AdapterValue(Corpus(e)) }

\* what an adapter's upload_documents and delete_documents_by_site give: an
\* error of the transport, an error of the request, a count
WriteOutcomes ==
    { AdapterRaised(BackendDown), AdapterRaised(Raised("ValueError", "bad request")),
      AdapterValue(<< 2 >>) }

\* the endpoint the next step of the call c is about
StepEndpoint(c) ==
    IF EndpointNameOf(c) # "" THEN EndpointNameOf(c)
    ELSE EnabledOf(c)[Min(c.i, Len(EnabledOf(c)))]

\* what a new client starts with besides its configuration
InitRest ==
    /\ handler = NoHandler
    /\ nlweb_sites = ALL
    /\ client_cache = {}
    /\ endpoint_sites_cache = [ e \in Endpoints |-> Absent ]
    /\ retrieval_lock = FALSE
    /\ pc = "constructed"
    /\ outcome = NoOutcome
    /\ SearchIdle
    /\ CacheIdle

\* the state after VectorDBClient(endpoint_name = name) succeeded, called by who
ClientBuilt(name, cfg_write, who) ==
    LET made == VectorDBClientInit(RegistryWith(FALSE), name, cfg_write)
    IN  /\ made.ok
        /\ ConfiguredAs(RegistryWith(FALSE), cfg_write)
        /\ enabled_endpoints = made.enabled_endpoints
        /\ self_endpoint_name = made.endpoint_name
        /\ write_endpoint = made.write_endpoint
        /\ callers = who
        /\ call = [ p \in Callers |-> CallIdle ]
        /\ InitRest

InitOps == \E name \in { "", "E2" }, cfg_write \in { "", "E1", "E3" } :
              ClientBuilt(name, cfg_write, { "c1" })

InitConcurrent == ClientBuilt("", "E1", Callers)

NextOps ==
    \E p \in Callers :
        \/ \E st \in OpsSiteArgs, arg \in EndpointArgs : SearchCall(p, st, arg)
        \/ \E arg \in EndpointArgs : SearchByUrlCall(p, arg)
        \/ \E arg \in EndpointArgs : GetSitesCall(p, arg)
        \/ \E op \in WriteOps : WriteCall(p, op)
        \/ \E got \in GetSitesOutcomes(StepEndpoint(call[p])),
              ctor_ok \in CtorOutcomes(StepEndpoint(call[p])) : SearchStep(p, got, ctor_ok)
        \/ \E k \in DOMAIN call[p].calls :
              \E res \in QueryOutcomes(call[p].calls[k].endpoint) : SearchTaskDone(p, k, res)
        \/ SearchFinish(p)
        \/ \E res \in SearchByUrlOutcomes(StepEndpoint(call[p])),
              ctor_ok \in CtorOutcomes(StepEndpoint(call[p])) :
                SearchByUrlStep(p, res, ctor_ok)
        \/ \E got \in GetSitesOutcomes(StepEndpoint(call[p])),
              ctor_ok \in CtorOutcomes(StepEndpoint(call[p])) : GetSitesStep(p, got, ctor_ok)
        \/ \E res \in WriteOutcomes, ctor_ok \in CtorOutcomes(write_endpoint) :
              WriteStep(p, res, ctor_ok)

SpecOps == InitOps /\ [][NextOps]_vars

NextConcurrent ==
    \/ NextOps
    \/ \E p \in Callers : LockGranted(p)

SpecConcurrent == InitConcurrent /\ [][NextConcurrent]_vars

(***************************************************************************)
(* Properties of the facade operations, checked under SpecOps.             *)
(***************************************************************************)
\* caller p runs, or has finished, a write operation
IsWrite(p) == call[p].op \in WriteOps

\* the step ends a write operation of caller p
WriteEnds(p) == IsWrite(p)' /\ call[p].pc # "done" /\ call'[p].pc = "done"

\* the step starts and ends a write operation of caller p: it failed the
\* check of the write endpoint
WriteRefused(p) == IsWrite(p)' /\ call[p].pc \in { "idle", "done" } /\ call'[p].pc = "done"

\* C12: on a client with no write endpoint, upload_documents and
\* delete_documents_by_site raise the ValueError "No write endpoint
\* configured for ... operations" at once; the call makes no adapter call,
\* constructs no adapter and leaves the adapter cache as it was.
C12_WriteIsolation ==
    /\ [](\A p \in callers :
            (write_endpoint = "" /\ IsWrite(p)) =>
                /\ call[p].pc = "done"
                /\ call[p].outcome = Raised("ValueError", NoWriteEndpoint(call[p].op))
                /\ call[p].calls = << >>)
    /\ [][\A p \in callers :
            (write_endpoint = "" /\ call'[p] # call[p] /\ IsWrite(p)') =>
                /\ WriteRefused(p)
                /\ client_cache' = client_cache
                /\ retrieval_lock' = retrieval_lock]_vars

C12_Witness ==
    /\ write_endpoint = ""
    /\ client_cache # {}
    /\ \E p \in callers :
          /\ call[p].op = "delete_documents_by_site"
          /\ call[p].pc = "done"
          /\ call[p].outcome.kind = "raised"

\* caller p has finished a write operation on a client that has a write endpoint
WriteDone(p) == IsWrite(p) /\ call[p].pc = "done" /\ write_endpoint # ""

\* C13: on a client that has a write endpoint, a finished upload_documents
\* or delete_documents_by_site has made exactly one adapter call, the
\* operation itself on the adapter of the write endpoint, whatever the
\* enabled endpoints of the client are.
C13_WritesDelegateToWriteEndpoint ==
    \A p \in callers :
        WriteDone(p) =>
            /\ Len(call[p].calls) = 1
            /\ call[p].calls[1].endpoint = write_endpoint
            /\ call[p].calls[1].method = call[p].op

\* the adapter of the write endpoint raised in the write operation of caller p
WriteAdapterRaised(p) ==
    /\ IsWrite(p)
    /\ call[p].calls # << >>
    /\ call[p].calls[Len(call[p].calls)].state = "raised"

\* C14: when the adapter of the write endpoint raises in upload_documents
\* or delete_documents_by_site, the operation ends raising that very error,
\* after that one adapter call and no other, and the step that ends it
\* leaves the lock of the client free.
C14_WriteErrorsPropagate ==
    /\ [](\A p \in callers :
            WriteAdapterRaised(p) =>
                /\ call[p].pc = "done"
                /\ call[p].outcome = call[p].calls[1].raised
                /\ call[p].outcome.kind = "raised"
                /\ Len(call[p].calls) = 1
                /\ call[p].calls[1].endpoint = write_endpoint)
    /\ [][\A p \in callers :
            (WriteEnds(p) /\ WriteAdapterRaised(p)') => ~retrieval_lock']_vars

C14_Witness ==
    \E p \in callers :
        /\ WriteAdapterRaised(p)
        /\ call[p].op = "upload_documents"
        /\ call[p].outcome = Raised("ValueError", "bad request")
        /\ ~retrieval_lock

(***************************************************************************)
(* Properties of overlapping calls, checked under SpecConcurrent.          *)
(***************************************************************************)
\* caller p is between the first adapter call of its operation and its end
ExecutingAdapterCalls(p) == call[p].pc \in { "run", "gather" } /\ call[p].calls # << >>

\* C15: of the calls made on one client, at most one at a time is between
\* its first adapter call and its end, whatever the operations and their
\* arguments are.
C15_OneOperationAtATime ==
    Cardinality({ p \in callers : ExecutingAdapterCalls(p) }) <= 1

\* caller p has finished a search that pinned the registered endpoint
\* call[p].arg
PinnedSearchDone(p) ==
    /\ call[p].op = "search"
    /\ call[p].pc = "done"
    /\ call[p].arg \in RegistryNames(retrieval_endpoints)

\* C18: a finished search that pinned a registered endpoint has sent the
\* query to the adapter of the pinned endpoint exactly once, and has called
\* the adapter of no other endpoint, whatever the site index of the pinned
\* endpoint holds.
C18_PinnedSearchBypassesEligibility ==
    \A p \in callers :
        PinnedSearchDone(p) =>
            /\ Len(SelectSeq(call[p].calls, IsQuery)) = 1
            /\ \A k \in DOMAIN call[p].calls : call[p].calls[k].endpoint = call[p].arg

\* caller p runs, or has finished, a search_by_url that probes the enabled
\* endpoints of a client not pinned to one endpoint
ProbingByUrl(p) ==
    /\ call[p].op = "search_by_url"
    /\ call[p].pc \in { "run", "done" }
    /\ call[p].arg = ""
    /\ self_endpoint_name = ""

\* the adapter call c gave a result that is not empty
ProbeHit(c) == c.state = "value" /\ Len(c.value) > 0

\* the endpoints caller p has probed so far, in the order of the probes
Probed(p) == [ k \in DOMAIN call[p].calls |-> call[p].calls[k].endpoint ]

\* the elements of seq follow one another as they do in order
InOrderOf(seq, order) ==
    \A j, k \in DOMAIN seq :
        j < k => \E a, b \in DOMAIN order : a < b /\ order[a] = seq[j] /\ order[b] = seq[k]

\* C19: search_by_url on a client not pinned to one endpoint probes the
\* enabled endpoints one after the other in their order, each at most once;
\* every probe before the last one made missed or failed; it ends returning
\* the result of a probe exactly when that probe hit, which is then the last
\* probe made, and otherwise ends, after every endpoint had its turn,
\* returning None; it never raises.
C19_SequentialProbing ==
    \A p \in callers :
        ProbingByUrl(p) =>
            LET c == call[p]
                n == Len(c.calls)
            IN  /\ InOrderOf(Probed(p), EnabledOf(c))
                /\ call[p].i <= Len(EnabledOf(c)) + 1
                /\ \A k \in 1..(n - 1) : ~ProbeHit(c.calls[k])
                /\ \A k \in 1..n : c.calls[k].method = "search_by_url"
                /\ c.pc = "run" => (n = 0 \/ ~ProbeHit(c.calls[n]))
                /\ c.pc = "done" =>
                      /\ c.outcome.kind \in { "returned", "returned_none" }
                      /\ c.outcome.kind = "returned" <=> (n > 0 /\ ProbeHit(c.calls[n]))
                      /\ c.outcome.kind = "returned" => c.outcome.value = c.calls[n].value
                      /\ c.outcome.kind = "returned_none" => c.i = Len(EnabledOf(c)) + 1

C19_Witness ==
    \E p \in callers :
        /\ ProbingByUrl(p)
        /\ call[p].pc = "done"
        /\ Len(call[p].calls) = 2
        /\ call[p].calls[1].state = "raised"
        /\ call[p].calls[1].endpoint = "E1"
        /\ call[p].calls[2].endpoint = "E2"
        /\ call[p].outcome = Returned(Doc("E2", "u1", JsonA1))

\* caller p has finished a get_sites that ran on a client: on self, or on
\* the temporary client built for its endpoint_name argument
GetSitesDone(p) ==
    /\ call[p].op = "get_sites"
    /\ call[p].pc = "done"
    /\ call[p].arg # "" => call[p].temp

\* the sites of the non-empty lists the adapters reported to the call c
ReportedSites(c) ==
    UNION { Range(c.calls[k].value) : k \in { j \in DOMAIN c.calls : c.calls[j].state = "value" } }

\* C20: a finished get_sites of a client not pinned to one endpoint has
\* asked every enabled endpoint once, in order, and returns a list that
\* holds each site of the lists the adapters reported exactly once and
\* nothing else, so the empty list when no adapter reported a site; an
\* adapter that raised or returned None adds nothing and the call does not
\* raise.  On a client pinned to one endpoint it returns the list the
\* adapter of that endpoint returned, and the empty list when that adapter
\* raised or returned None.
C20_GetSitesUnion ==
    \A p \in callers :
        GetSitesDone(p) =>
            LET c == call[p]
            IN  /\ c.outcome.kind = "returned"
                /\ IF EndpointNameOf(c) = ""
                   THEN /\ Probed(p) = EnabledOf(c)
                        /\ NoDuplicates(c.outcome.value)
                        /\ Range(c.outcome.value) = ReportedSites(c)
                   ELSE /\ Probed(p) = << EndpointNameOf(c) >>
                        /\ c.outcome.value = IF c.calls[1].state = "value"
                                             THEN c.calls[1].value ELSE << >>

C20_Witness ==
    \E p \in callers :
        /\ GetSitesDone(p)
        /\ EndpointNameOf(call[p]) = ""
        /\ Len(call[p].calls) = 2
        /\ call[p].calls[1].value = << SiteX >>
        /\ call[p].calls[2].value = << SiteY, SiteZ >>
        /\ Len(call[p].outcome.value) = 3

(***************************************************************************)
(* Further properties of _aggregate_results, checked under SpecAgg.        *)
(***************************************************************************)
\* the payloads endpoint k returned for url u, in the order of its list
PayloadsOf(k, u) ==
    LET Mine(r) == r[1] = u
        mine == SelectSeq(ListOf(k), Mine)
    IN  [ i \in DOMAIN mine |-> mine[i][2] ]

\* the payloads of the records of the merged output whose url is u
MergedPayloads(u) ==
    { final_results[i][2] : i \in { j \in DOMAIN final_results : final_results[j][1] = u } }

\* C21 as stated: a url contributed by exactly one endpoint has one record
\* in the merged output, whose payload is the payload that endpoint
\* returned for it, whatever that payload is.
C21_SinglePayloadUnchangedAlways ==
    Aggregated =>
        \A u \in AllInputUrls \ { "" } : \A k \in DOMAIN endpoint_results :
            Contributors(u) = { k } =>
                /\ Cardinality(MergedPayloads(u)) = 1
                /\ MergedPayloads(u) \subseteq Range(PayloadsOf(k, u))

\* C21, amended: a url contributed by exactly one endpoint, once in its
\* list, has one record in the merged output; its payload is the payload
\* the endpoint returned, token for token, when that payload is not empty,
\* and "{}" when it is empty.
C21_SinglePayloadUnchanged ==
    Aggregated =>
        \A u \in AllInputUrls \ { "" } : \A k \in DOMAIN endpoint_results :
            (Contributors(u) = { k } /\ Len(PayloadsOf(k, u)) = 1) =>
                /\ Cardinality({ i \in DOMAIN final_results : final_results[i][1] = u }) = 1
                /\ MergedPayloads(u) =
                     IF PayloadsOf(k, u)[1] # EmptyStr THEN { PayloadsOf(k, u)[1] }
                     ELSE { << "{", "}" >> }

C21_Witness ==
    /\ Aggregated
    /\ Contributors("u1") = { 3 }
    /\ PayloadsOf(3, "u1") = << JsonB3 >>
    /\ MergedPayloads("u1") = { JsonB3 }
    /\ json_dumps(json_loads(JsonB3)) # JsonB3
    /\ Cardinality(Contributors("u2")) = 2

(***************************************************************************)
(* Specification of the facade operations of a client pinned at            *)
(* construction to E3, which is registered with the credentials of its     *)
(* kind but not enabled, and which is also the write endpoint.             *)
(***************************************************************************)
InitPinned == ClientBuilt("E3", "E3", { "c1" })

SpecPinned == InitPinned /\ [][NextOps]_vars

\* C22: every endpoint whose adapter a search has sent a query to is
\* enabled in the registry and has the credentials its kind needs.
C22_QueriedEndpointsUsable ==
    \A p \in callers : \A k \in DOMAIN call[p].calls :
        (call[p].op = "search" /\ IsQuery(call[p].calls[k])) =>
            KeepEndpoint(ConfigOf(retrieval_endpoints, call[p].calls[k].endpoint))

(***************************************************************************)
(* Further properties of search, checked under Spec.                       *)
(***************************************************************************)
\* the iteration of the for loop for endpoint e is over in the running or
\* finished search
LoopPassed(e) == pc # "idle" /\ loop_i > IndexOf(enabled_endpoints, e)

\* C23: an empty list returned by an adapter's get_sites is cached as an
\* empty list, not as None; an endpoint whose cached site list is empty is
\* skipped by every search whose normalized filter is not "all" and gets no
\* query from it; and a search whose normalized filter is "all" queries
\* every endpoint whose adapter is there, whatever the site index holds for
\* it, and leaves the index as it is.
C23_EmptySiteSetSkips ==
    /\ \A e \in Endpoints : \A got \in GetSitesOutcomes(e) :
          (got.state = "list" /\ got.sites = << >>) =>
              /\ PopulateSites(TRUE, got).entry = SiteList(<< >>)
              /\ PopulateSites(TRUE, got).entry # NoneSites
              /\ ~PopulateSites(TRUE, got).raised
    /\ \A e \in Endpoints :
          /\ endpoint_sites_cache[e].state = "list" => populate_log[e] = "list"
          /\ (LoopPassed(e) /\ endpoint_sites_cache[e] = SiteList(<< >>) /\ site # ALL) =>
                /\ ~Queried(e)
                /\ e \in Range(skipped_endpoints)
          /\ (LoopPassed(e) /\ site = ALL /\ CacheKey(e) \in client_cache) =>
                /\ Queried(e)
                /\ e \notin Range(skipped_endpoints)

C23_Witness ==
    /\ SearchDone
    /\ endpoint_sites_cache["E1"] = SiteList(<< >>)
    /\ site = ALL
    /\ Queried("E1")
    /\ outcome.kind = "returned"

(***************************************************************************)
(* Further properties of overlapping and successive calls, checked under   *)
(* SpecConcurrent.                                                         *)
(***************************************************************************)
\* the requests of the site list of endpoint e that the searches of the
\* callers have made to fill a site index
SiteListRequests(e) ==
    { pk \in UNION { { p } \X DOMAIN call[p].calls : p \in callers } :
        /\ call[pk[1]].op = "search"
        /\ call[pk[1]].calls[pk[2]].method = "get_sites"
        /\ call[pk[1]].calls[pk[2]].endpoint = e }

\* C24: the searches made in the process, pinned or not, ask the adapter
\* of an endpoint for its site list at most once to fill the site index.
C24_SiteListRequestedOnce ==
    \A e \in Endpoints : Cardinality(SiteListRequests(e)) <= 1

(***************************************************************************)
(* Further properties of the adapter cache, checked under SpecCache.       *)
(***************************************************************************)
\* the step is the failure of the adapter's constructor in the get_client
\* call p
ConstructionFails(p) == gc[p].pc = "create" /\ gc'[p].pc = "raised"

\* the get_client call p raised the error of the adapter's constructor
AdapterCtorFailed(p) == gc[p].pc = "raised" /\ gc[p].e \in Range(gc[p].enabled)

\* C25: when the adapter's constructor fails in get_client, the call ends
\* raising, the adapter cache is left as it was, without an entry for the
\* key, and the cache lock is released; and a get_client call that holds
\* the lock and finds no entry for its key runs the constructor, so that a
\* call after a failure constructs again.
C25_FailedConstructionNotCached ==
    [][\A p \in GetClientCallers :
          /\ ConstructionFails(p) =>
                /\ client_cache' = client_cache
                /\ adapters' = adapters
                /\ CacheKey(gc[p].e) \notin client_cache'
                /\ adapters'[CacheKey(gc[p].e)] = 0
                /\ ~cache_lock'
                /\ gc'[p].got = 0
          /\ (gc[p].pc = "locked" /\ gc'[p] # gc[p]
                /\ CacheKey(gc[p].e) \notin client_cache) => gc'[p].pc = "create"]_vars

C25_Witness ==
    \E p, q \in GetClientCallers :
        /\ AdapterCtorFailed(p)
        /\ gc[p].e = "E3"
        /\ gc[q].pc = "returned"
        /\ gc[q].e = "E3"
        /\ gc[q].got = 1
        /\ CacheKey("E3") \in client_cache
        /\ ~cache_lock

(***************************************************************************)
(* C26: the site filter is normalized before eligibility and dispatch.     *)
(***************************************************************************)
\* the number of tokens of s equal to tok
Count(s, tok) == Cardinality({ i \in DOMAIN s : s[i] = tok })

RECURSIVE Concat(_)
\* the strings of a list, one after the other
Concat(l) == IF l = << >> THEN << >> ELSE Head(l) \o Concat(Tail(l))

\* s without its separators
Letters(s) == SelectSeq(s, LAMBDA t : t \notin { ",", " ", "[", "]" })

\* the filter the caller passed, after the process-wide restriction
AfterRestriction == IF site_arg = ALL /\ Restricted THEN nlweb_sites ELSE site_arg

\* l is the list of the comma-separated identifiers of the str s
IsCommaListOf(l, s) ==
    /\ Len(l) = Count(s, ",") + 1
    /\ \A i \in DOMAIN l :
          /\ Range(l[i]) \cap { ",", "[", "]" } = { }
          /\ l[i] # << >> => l[i][1] # " " /\ l[i][Len(l[i])] # " "
    /\ Letters(Concat(l)) = Letters(s)

\* t is the str s with an underscore for every space
IsUnderscored(t, s) ==
    /\ Len(t) = Len(s)
    /\ \A i \in DOMAIN s : t[i] = IF s[i] = " " THEN "_" ELSE s[i]

RegistryWithoutE3Credentials ==
    << EndpointConfig("E1", DbType("E1"), TRUE, "key", "https://e1", ""),
       EndpointConfig("E2", DbType("E2"), TRUE, "", "https://e2", ""),
       EndpointConfig("E3", DbType("E3"), FALSE, "", "", "") >>

InitLifecycle ==
    /\ handler = NoHandler
    /\ retrieval_endpoints \in { RegistryWith(FALSE), RegistryWithoutE3Credentials }
    /\ config_write_endpoint \in { "", "E1", "E3", "E9" }
    /\ nlweb_sites = ALL
    /\ enabled_endpoints = << >>
    /\ self_endpoint_name = ""
    /\ write_endpoint = ""
    /\ client_cache = {}
    /\ endpoint_sites_cache = [ e \in Endpoints |-> Absent ]
    /\ retrieval_lock = FALSE
    /\ pc = "new"
    /\ outcome = NoOutcome
    /\ callers = { "c1" }
    /\ call = [ p \in Callers |-> CallIdle ]
    /\ SearchIdle
    /\ CacheIdle

\* the constructor runs; the operations are called on the client it made
NextLifecycle ==
    \/ \E name \in { "", "E2", "E9" } : Construct(name)
    \/ pc = "constructed" /\ NextOps

SpecLifecycle == InitLifecycle /\ [][NextLifecycle]_vars

(***************************************************************************)
(* C27: the write endpoint at construction and afterwards.                 *)
(***************************************************************************)
\* the configured write endpoint is not registered or fails the credential check
WriteEndpointUnusable ==
    /\ config_write_endpoint # ""
    /\ \/ config_write_endpoint \notin RegistryNames(retrieval_endpoints)
       \/ ~TableSays(ConfigOf(retrieval_endpoints, config_write_endpoint))

\* caller p runs, or has finished, a read operation
IsRead(p) == call[p].op \in { "search", "search_by_url", "get_sites" }

\* C27: once the constructor has run, it has raised the configuration
\* error (a ValueError) if the configured write endpoint is not registered
\* or fails the credential check; with no write endpoint configured it has
\* made the client whenever the requested name is registered (or none is
\* requested); on a client made without a write endpoint every
\* upload_documents and delete_documents_by_site call has raised, a
\* ValueError that names the missing write endpoint, and no read operation
\* ends with that error.
C27_WriteEndpointAtConstruction ==
    pc # "new" =>
        /\ WriteEndpointUnusable => ConstructionFailed
        /\ (config_write_endpoint = ""
              /\ self_endpoint_name \in RegistryNames(retrieval_endpoints) \cup { "" }
              /\ (AllEnabledMode => EnabledAndUsable # {}))
              => Constructed
        /\ (Constructed /\ config_write_endpoint = "") =>
              /\ write_endpoint = ""
              /\ \A p \in callers :
                    /\ IsWrite(p) =>
                          /\ call[p].pc = "done"
                          /\ call[p].outcome = Raised("ValueError", NoWriteEndpoint(call[p].op))
                    /\ IsRead(p) =>
                          (call[p].outcome.kind = "raised" =>
                              call[p].outcome.error \notin
                                  { NoWriteEndpoint(op) : op \in WriteOps })

\* on a client made without a write endpoint a search has returned
\* documents after adapters were built (a write was refused in between or not)
C27_Witness ==
    /\ Constructed
    /\ config_write_endpoint = ""
    /\ \E p \in callers :
          /\ call[p].op = "search"
          /\ call[p].pc = "done"
          /\ call[p].outcome.kind = "returned"
          /\ call[p].outcome.value # << >>

(***************************************************************************)
(* C28: display name and site of a merged record.                          *)
(***************************************************************************)
\* the first endpoint, in iteration order, that returned the url u
FirstContributor(u) ==
    CHOOSE k \in Contributors(u) : \A k2 \in Contributors(u) : k <= k2

\* the first result with url u in the list of endpoint k
FirstOccurrence(k, u) ==
    LET i == CHOOSE i \in DOMAIN ListOf(k) :
                /\ ListOf(k)[i][1] = u
                /\ \A j \in 1 .. i - 1 : ListOf(k)[j][1] # u
    IN  ListOf(k)[i]

\* the endpoint whose occurrence of u the round-robin interleave meets first
FirstEncountered(u) ==
    CHOOSE k \in Contributors(u) :
        \E i \in DOMAIN ListOf(k) : ListOf(k)[i][1] = u /\ EmittedOnTurn(k, i)

\* C28: the record of a url that two or more endpoints returned has the
\* display name and the site of that url's first occurrence in the list of
\* the first endpoint, in iteration order, that returned it, whichever
\* endpoint's occurrence the round-robin interleave meets first.
C28_NameSiteOfFirstEndpoint ==
    Aggregated =>
        \A u \in AllInputUrls \ { "" } :
            Cardinality(Contributors(u)) >= 2 =>
                \A i \in DOMAIN final_results :
                    final_results[i][1] = u =>
                        /\ final_results[i][3] = FirstOccurrence(FirstContributor(u), u)[3]
                        /\ final_results[i][4] = FirstOccurrence(FirstContributor(u), u)[4]

\* E1 and E2 both returned u2, the interleave met E2's occurrence first, and
\* the record of u2 has E1's name and site
C28_Witness ==
    /\ Aggregated
    /\ Contributors("u2") = { 1, 2 }
    /\ FirstEncountered("u2") = 2
    /\ \E i \in DOMAIN final_results :
          /\ final_results[i][1] = "u2"
          /\ final_results[i][3] = NameOf("E1")
          /\ final_results[i][4] = SiteOf("E1")

(***************************************************************************)
(* C29: a search waits for the queries it dispatched.                      *)
(***************************************************************************)
\* the query tasks of the search that are not done
InFlight == { i \in DOMAIN tasks : ~task_result[i].done }

\* C29: a search that has returned or raised has no query task in flight,
\* and neither has one that does not hold the instance lock: every task it
\* created has returned a list or raised before the search ends and
\* releases the lock, and no task ends afterwards.
C29_SearchWaitsForQueries ==
    /\ (SearchDone \/ outcome.kind # "none" \/ ~retrieval_lock) => InFlight = {}
    /\ SearchDone => Range(completion) = DOMAIN tasks /\ Len(completion) = Len(tasks)

\* a search has returned after its three queries ended in another order
\* than they were dispatched in, one of them with an exception
C29_Witness ==
    /\ SearchDone
    /\ outcome.kind = "returned"
    /\ Len(tasks) = 3
    /\ completion = << 3, 1, 2 >>
    /\ FailedTasks = { 1 }

(***************************************************************************)
(* Specification of two callers with fairness.  The client is built over   *)
(* E1 and E2 and writes to E1 or to E3, which is not among its endpoints.  *)
(* Caller c1 calls every operation (search_all_sites is search with the    *)
(* site "all", line 731), with and without an endpoint_name; caller c2     *)
(* calls the write operations.  Adapter calls return or raise; what they   *)
(* return is cut to the empty list and None, which the control flow does   *)
(* not tell from other values.                                             *)
(***************************************************************************)
InitLive == \E cfg_write \in { "E1", "E3" } : ClientBuilt("", cfg_write, Callers)

\* the coroutine of caller p goes on after an await of an adapter
Progress(p) ==
    \/ \E got \in GetSitesOutcomes(StepEndpoint(call[p])),
          ctor_ok \in CtorOutcomes(StepEndpoint(call[p])) : SearchStep(p, got, ctor_ok)
    \/ \E k \in DOMAIN call[p].calls :
          \E res \in { AdapterRaised(BackendDown), AdapterValue(<< >>) } :
              SearchTaskDone(p, k, res)
    \/ SearchFinish(p)
    \/ \E res \in { AdapterRaised(BackendDown), AdapterNone },
          ctor_ok \in CtorOutcomes(StepEndpoint(call[p])) :
            SearchByUrlStep(p, res, ctor_ok)
    \/ \E got \in GetSitesOutcomes(StepEndpoint(call[p])),
          ctor_ok \in CtorOutcomes(StepEndpoint(call[p])) : GetSitesStep(p, got, ctor_ok)
    \/ \E res \in WriteOutcomes, ctor_ok \in CtorOutcomes(write_endpoint) :
          WriteStep(p, res, ctor_ok)

NextLive ==
    \E p \in Callers :
        \/ \E st \in { ALL, Str(SiteX) }, arg \in { "", "E2" } :
              p = "c1" /\ SearchCall(p, st, arg)
        \/ \E arg \in { "", "E2" } : p = "c1" /\ SearchByUrlCall(p, arg)
        \/ \E arg \in { "", "E2" } : p = "c1" /\ GetSitesCall(p, arg)
        \/ \E op \in WriteOps : WriteCall(p, op)
        \/ Progress(p)
        \/ LockGranted(p)

\* every adapter call ends and the event loop resumes the coroutine that
\* awaited it; asyncio.Lock wakes its waiters in the order they arrived, so
\* a waiter is not passed over for ever
SpecLive ==
    /\ InitLive
    /\ [][NextLive]_vars
    /\ \A p \in Callers : WF_vars(Progress(p)) /\ SF_vars(LockGranted(p))

(***************************************************************************)
(* C30: termination and the instance lock.                                 *)
(***************************************************************************)
\* caller p is inside "async with self._retrieval_lock" of the client itself
HoldsLock(p) == call[p].pc \in { "run", "gather" } /\ ~call[p].temp

\* caller p is queued on the lock of the client
WaitsForLock(p) == call[p].pc = "wait"

\* C30: every operation that was called ends; the lock of the client is
\* held exactly while one call is inside its locked block, so it is free
\* after every return and every exception; a call asks for the lock only
\* as its first step, when the caller holds nothing (search_all_sites and
\* the site index do not ask for it, a pinned call uses the lock of its
\* temporary client); and every call queued on the lock gets it.
C30_OperationsTerminateLockFreed ==
    /\ [](retrieval_lock <=> \E p \in callers : HoldsLock(p))
    /\ [](Cardinality({ p \in callers : HoldsLock(p) }) <= 1)
    /\ [][\A p \in callers :
            (WaitsForLock(p)' /\ ~WaitsForLock(p)) => call[p].pc \in { "idle", "done" }]_vars
    /\ [][\A p \in callers :
            (HoldsLock(p)' /\ ~HoldsLock(p)) =>
                /\ ~retrieval_lock
                /\ call[p].pc \in { "idle", "done", "wait" }]_vars
    /\ \A p \in Callers : WaitsForLock(p) ~> HoldsLock(p)
    /\ \A p \in Callers : (call[p].pc \notin { "idle", "done" }) ~> (call[p].pc = "done")

\* c2 holds the lock for a write and c1 is queued on it, after an earlier
\* call built an adapter and filled the site index of E1
C30_Witness ==
    /\ HoldsLock("c2")
    /\ WaitsForLock("c1")
    /\ endpoint_sites_cache["E1"].state # "absent"
    /\ client_cache # {}

(***************************************************************************)
(* C31: an adapter that cannot be obtained while the queries are created.  *)
(***************************************************************************)
\* the site index lets the search query endpoint e
Eligible(e) ==
    \/ site = ALL
    \/ endpoint_sites_cache[e].state = "none"
    \/ /\ endpoint_sites_cache[e].state = "list"
       /\ Requested(site) \cap Range(endpoint_sites_cache[e].sites) # {}

\* the search came to the eligible endpoint e and could not get its adapter
AdapterNotObtained(e) == LoopPassed(e) /\ Eligible(e) /\ CacheKey(e) \notin client_cache

\* C31: an eligible endpoint whose adapter could not be obtained gets no
\* query and is not listed as skipped, and every eligible endpoint the loop
\* has come to whose adapter is there has its query, before or after the
\* failure; a finished search has waited for every query, has merged the
\* lists of all that succeeded, and has raised only the no-valid-endpoints
\* error, when no query was created, or the all-searches-failed error,
\* when every query raised.
C31_AdapterFailureExcludesEndpoint ==
    /\ \A e \in Endpoints :
          /\ AdapterNotObtained(e) => ~Queried(e) /\ e \notin Range(skipped_endpoints)
          /\ (LoopPassed(e) /\ Eligible(e) /\ CacheKey(e) \in client_cache) => Queried(e)
    /\ SearchDone =>
          /\ \A i \in DOMAIN tasks : task_result[i].done
          /\ outcome.kind \in { "returned", "raised" }
          /\ outcome.kind = "raised" <=> (tasks = << >> \/ Succeeded = {})
          /\ outcome.kind = "raised" =>
                outcome = Raised("ValueError", IF tasks = << >> THEN NoValidEndpoints
                                               ELSE AllSearchesFailed)
          /\ outcome.kind = "returned" =>
                /\ { endpoint_results[k][1] : k \in DOMAIN endpoint_results }
                     = { tasks[i].endpoint : i \in Succeeded }
                /\ final_results = aggregate_results(endpoint_results)

\* E3 comes first and its adapter could not be obtained; E1 and E2 were
\* queried after that and the search returned their documents
C31_Witness ==
    /\ SearchDone
    /\ enabled_endpoints[1] = "E3"
    /\ AdapterNotObtained("E3")
    /\ Queried("E1") /\ Queried("E2")
    /\ Succeeded = { 1, 2 }
    /\ outcome.kind = "returned"
    /\ outcome.value # << >>

(***************************************************************************)
(* Specification of the relevance check: one RelevanceDetection is made    *)
(* for a request handler and its do is run.  The handler's site is "all",  *)
(* "nlws", "true", the empty string, a site name, or a list; the other     *)
(* pre-retrieval checks, which run beside this one, may have ended the     *)
(* query, set the event or sent a message before.                          *)
(***************************************************************************)
InitRelevance ==
    /\ \E st \in { ALL, Str(<< "nlws" >>), Str(<< "true" >>), Str(<< >>), Str(SiteX),
                   Str(<< "site", " ", "X" >>), Lst(<< SiteZ, SiteY >>) },
          done, event \in BOOLEAN,
          sent \in { << >>, << [ message_type |-> "decontextualized_query",
                                 message |-> "q" ] >> } :
            handler = [ NoHandler EXCEPT !.site = st, !.query_done = done,
                                         !.abort_fast_track_event = event, !.sent = sent ]
    /\ ConfiguredAs(RegistryWith(TRUE), "")
    /\ nlweb_sites = ALL
    /\ enabled_endpoints = << >>
    /\ self_endpoint_name = ""
    /\ write_endpoint = ""
    /\ client_cache = {}
    /\ endpoint_sites_cache = [ e \in Endpoints |-> Absent ]
    /\ retrieval_lock = FALSE
    /\ pc = "idle"
    /\ outcome = NoOutcome
    /\ SearchIdle
    /\ NoCallers
    /\ CacheIdle

NextRelevance ==
    \/ RelevanceDetectionInit
    \/ \E response \in { NoResponse, Response("True", "off topic"), Response("False", "") } :
          do(response)

SpecRelevance == InitRelevance /\ [][NextRelevance]_vars

(***************************************************************************)
(* C32: the relevance check always answers that the query is relevant.     *)
(***************************************************************************)
\* the step is do, from its call to its return
DoReturns == handler.detection = "constructed" /\ handler'.detection = "done"

\* C32: whatever the handler's site is, the precheck step "Relevance" is
\* started once the check is constructed and done once do has returned, no
\* prompt was run, the query is never marked irrelevant, and do leaves
\* query_done, the abort-fast-track event and the messages sent as they
\* were.
C32_RelevanceCheckDisabled ==
    /\ [](/\ handler.detection = "constructed" => handler.precheck_step = "started"
          /\ handler.detection = "done" => handler.precheck_step = "done"
          /\ handler.prompts = << >>
          /\ ~handler.query_is_irrelevant
          /\ \A k \in DOMAIN handler.sent :
                handler.sent[k].message_type # "site_is_irrelevant_to_query")
    /\ [][DoReturns =>
            /\ handler'.query_done = handler.query_done
            /\ handler'.abort_fast_track_event = handler.abort_fast_track_event
            /\ handler'.sent = handler.sent
            /\ handler'.site = handler.site]_vars

\* do has returned for a handler whose site is the site name siteX, with
\* the query not ended and the event not set
C32_Witness ==
    /\ handler.detection = "done"
    /\ handler.site = Str(SiteX)
    /\ handler.precheck_step = "done"
    /\ ~handler.query_done
    /\ ~handler.abort_fast_track_event

====
